---------------------------- MODULE Spec2Model ----------------------------
(***************************************************************************)
(* Model of the search subsystem of Historify (src/src/services/search.js) *)
(* the SearchService singleton: its inverted index, the tokenizer and      *)
(* stemmer, the three candidate-selection strategies and the               *)
(* filter / score / sort / paginate pipeline of search().                  *)
(*                                                                         *)
(* Texts are TLA+ strings; a character is a string of length 1.            *)
(* Sequences model JavaScript arrays (and the insertion order of Map and   *)
(* Set), Undef models undefined / an omitted property, Null models null.   *)
(*                                                                         *)
(* The error handler (src/src/utils/errorHandler.js), a singleton of its   *)
(* own, is modelled beside it: its in-memory log and the copy it keeps in  *)
(* localStorage.  ErrorSpec is the specification of its calls.             *)
(***************************************************************************)
EXTENDS Integers, Sequences, FiniteSets, TLC

VARIABLES searchIndex, indexedDocs, call, trace, response,
          errorLog, storedLog, handled, errorCall, errorRun

searchVars == <<searchIndex, indexedDocs, call, trace, response>>

\* errorLog: this.errorLog; storedLog: the item 'historify_error_log' of
\* localStorage; handled: the number of errors processed so far; errorCall:
\* the last call of the handler; errorRun: what has happened so far
errorVars == <<errorLog, storedLog, handled, errorCall, errorRun>>

vars == <<searchIndex, indexedDocs, call, trace, response,
          errorLog, storedLog, handled, errorCall, errorRun>>

\* undefined where a text is expected, null, and undefined where a number is
\* expected (the numbers of the program are never negative).  An omitted
\* array is the empty array: the code takes the same branch for both.
Undef == "<undefined>"
Null == "<null>"
UndefNum == -1

(***************************************************************************)
(* Bounds of the model.                                                    *)
(***************************************************************************)
MaxDocs == 2
MaxLimit == 2
MaxOffset == 3

(***************************************************************************)
(* Generic helpers on sequences (JavaScript array methods).                *)
(***************************************************************************)
Range(s) == {s[i] : i \in 1..Len(s)}

Min2(a, b) == IF a <= b THEN a ELSE b

Max2(a, b) == IF a >= b THEN a ELSE b

\* Array.prototype.includes / indexOf >= 0
SeqIncludes(s, x) == \E i \in 1..Len(s) : s[i] = x

\* Array.prototype.slice(from, to) with 0-based, end-exclusive indices
Slice(s, from, to) == SubSeq(s, Min2(from, Len(s)) + 1, Min2(to, Len(s)))

(***************************************************************************)
(* Characters and strings.                                                 *)
(***************************************************************************)
UpperChars == "ABCDEFGHIJKLMNOPQRSTUVWXYZ"
LowerChars == "abcdefghijklmnopqrstuvwxyz"
DigitChars == "0123456789_"

CharAt(s, i) == SubSeq(s, i, i)

CharsOf(s) == {CharAt(s, i) : i \in 1..Len(s)}

\* \w of a JavaScript regular expression: [A-Za-z0-9_]
WordCharSet == CharsOf(UpperChars) \cup CharsOf(LowerChars) \cup CharsOf(DigitChars)

\* \s of a JavaScript regular expression, within the alphabet of the model
SpaceCharSet == {" "}

UpperCharSet == CharsOf(UpperChars)

\* the characters text.replace(/[^\w\s]/g, ' ') keeps
KeptCharSet == WordCharSet \cup SpaceCharSet

lowerChar(c) ==
    IF c \in UpperCharSet
    THEN CharAt(LowerChars, CHOOSE i \in 1..Len(UpperChars) : CharAt(UpperChars, i) = c)
    ELSE c

\* String.prototype.toLowerCase, character by character
RECURSIVE toLowerCase(_)
toLowerCase(s) ==
    IF Len(s) <= 1 THEN lowerChar(s)
    ELSE LET half == Len(s) \div 2 IN
         toLowerCase(SubSeq(s, 1, half)) \o toLowerCase(SubSeq(s, half + 1, Len(s)))

\* text.replace(/[^\w\s]/g, ' '), character by character
RECURSIVE replacePunctuation(_)
replacePunctuation(s) ==
    IF Len(s) = 0 THEN ""
    ELSE IF Len(s) = 1 THEN (IF s \in KeptCharSet THEN s ELSE " ")
    ELSE LET half == Len(s) \div 2 IN
         replacePunctuation(SubSeq(s, 1, half))
             \o replacePunctuation(SubSeq(s, half + 1, Len(s)))

isSpaceAt(s, i) == CharAt(s, i) \in SpaceCharSet

\* text.split(/\s+/): the pieces between maximal runs of whitespace, an empty
\* piece included when the text starts or ends with whitespace
RECURSIVE splitWhitespace(_)
splitWhitespace(s) ==
    IF \A i \in 1..Len(s) : ~isSpaceAt(s, i) THEN <<s>>
    ELSE LET p == CHOOSE i \in 1..Len(s) :
                      isSpaceAt(s, i) /\ \A k \in 1..(i - 1) : ~isSpaceAt(s, k)
             q == CHOOSE i \in (p + 1)..(Len(s) + 1) :
                      /\ \A k \in p..(i - 1) : isSpaceAt(s, k)
                      /\ (i <= Len(s) => ~isSpaceAt(s, i))
         IN <<SubSeq(s, 1, p - 1)>> \o splitWhitespace(SubSeq(s, q, Len(s)))

\* String.prototype.endsWith
endsWith(s, suffix) ==
    /\ Len(suffix) <= Len(s)
    /\ SubSeq(s, Len(s) - Len(suffix) + 1, Len(s)) = suffix

\* String.prototype.startsWith
startsWith(s, prefix) ==
    /\ Len(prefix) <= Len(s)
    /\ SubSeq(s, 1, Len(prefix)) = prefix

\* String.prototype.includes
includes(s, sub) ==
    \E i \in 0..(Len(s) - Len(sub)) : SubSeq(s, i + 1, i + Len(sub)) = sub

\* JavaScript string concatenation value + ' ' + fileName: null and undefined
\* are converted to the texts "null" and "undefined"
toStr(v) == IF v = Null THEN "null" ELSE IF v = Undef THEN "undefined" ELSE v

combinedText(doc) == toStr(doc.ocrText) \o " " \o toStr(doc.fileName)

(***************************************************************************)
(* Tokenizer and stemmer.                                                  *)
(***************************************************************************)
stopWords ==
    {"the", "a", "an", "and", "or", "but", "in", "on", "at", "to", "for", "of",
     "with", "by", "is", "are", "was", "were", "be", "been", "being", "have",
     "has", "had", "do", "does", "did", "will", "would", "could", "should",
     "may", "might", "can", "must", "shall"}

suffixes == <<"ing", "ed", "er", "est", "ly", "tion", "sion", "ness", "ment">>

\* a stemmer that strips a suffix whatever is left of the word
RECURSIVE stemFromAnyLength(_, _)
stemFromAnyLength(word, k) ==
    IF k > Len(suffixes) THEN word
    ELSE IF endsWith(word, suffixes[k]) /\ Len(word) > Len(suffixes[k])
         THEN SubSeq(word, 1, Len(word) - Len(suffixes[k]))
         ELSE stemFromAnyLength(word, k + 1)

RECURSIVE stemFrom(_, _)
stemFrom(word, k) ==
    IF k > Len(suffixes) THEN word
    ELSE IF endsWith(word, suffixes[k]) /\ Len(word) > Len(suffixes[k]) + 2
         THEN SubSeq(word, 1, Len(word) - Len(suffixes[k]))
         ELSE stemFrom(word, k + 1)

\* a stemmer that stems what it has stemmed
stemWordTwice(word) == stemFrom(stemFrom(word, 1), 1)

stemWord(word) == stemFrom(word, 1)

mapStem(tokens) == [i \in 1..Len(tokens) |-> stemWord(tokens[i])]

keepToken(token) == Len(token) > 2 /\ token \notin stopWords

tokenize(text) ==
    IF text = Null \/ text = Undef \/ text = "" THEN <<>>
    ELSE mapStem(SelectSeq(splitWhitespace(replacePunctuation(toLowerCase(text))),
                           keepToken))

(***************************************************************************)
(* Documents.  uploadDate is the time value new Date(uploadDate) yields,   *)
(* counted in days; metadata and tags are optional.                        *)
(***************************************************************************)
docCensus ==
    [documentId |-> "d1", fileName |-> "Census_1920.pdf",
     ocrText |-> "Smith John factory worker", uploadDate |-> 10,
     metadata |-> [fileType |-> "application/pdf", fileSize |-> 3, source |-> "upload"],
     tags |-> <<"census">>]

docImmigration ==
    [documentId |-> "d2", fileName |-> "Immigration.jpg",
     ocrText |-> "Smith John laborer Ireland", uploadDate |-> 20,
     metadata |-> [fileType |-> "image/jpeg", fileSize |-> 1, source |-> "scan"],
     tags |-> <<"ireland", "census">>]

\* doc.metadata undefined: every doc.metadata?.field is undefined
noMetadata == [fileType |-> Undef, fileSize |-> UndefNum, source |-> Undef]

\* a record whose OCR has not run: no text, no metadata, no tags
docNotes ==
    [documentId |-> "d3", fileName |-> "notes.txt",
     ocrText |-> Null, uploadDate |-> 30,
     metadata |-> noMetadata,
     tags |-> <<>>]

\* document d1 after its text was edited: same id, other content
docCensusEdited ==
    [documentId |-> "d1", fileName |-> "Census_1920.pdf",
     ocrText |-> "The Smyth farm", uploadDate |-> 10,
     metadata |-> [fileType |-> "application/pdf", fileSize |-> 3, source |-> "upload"],
     tags |-> <<"census">>]

\* two transcriptions of one letter: the same words in another order
docLetter ==
    [documentId |-> "d4", fileName |-> "letter.txt",
     ocrText |-> "Smith John farmer", uploadDate |-> 40,
     metadata |-> [fileType |-> "text/plain", fileSize |-> 2, source |-> "upload"],
     tags |-> <<>>]

docLetterReordered ==
    [documentId |-> "d5", fileName |-> "letter.txt",
     ocrText |-> "John Smith farmer", uploadDate |-> 40,
     metadata |-> [fileType |-> "text/plain", fileSize |-> 2, source |-> "upload"],
     tags |-> <<>>]

\* two records whose text and file name hold no term at all
docWill ==
    [documentId |-> "d6", fileName |-> "a.b",
     ocrText |-> "will", uploadDate |-> 50,
     metadata |-> noMetadata,
     tags |-> <<>>]

docWould ==
    [documentId |-> "d7", fileName |-> "a.b",
     ocrText |-> "would", uploadDate |-> 50,
     metadata |-> noMetadata,
     tags |-> <<>>]

\* the documents of the host, in the order it keeps them
AllDocs == <<docCensus, docImmigration, docNotes, docCensusEdited>>

DocCatalog == Range(AllDocs)

\* documentId is unique within a collection
uniqueIds(docs) ==
    \A i, j \in 1..Len(docs) : docs[i].documentId = docs[j].documentId => i = j

\* the documents of AllDocs at the positions picked, in the order of AllDocs
pickDocs(picked) ==
    [k \in 1..Cardinality(picked) |->
        AllDocs[CHOOSE i \in picked : Cardinality({j \in picked : j < i}) = k - 1]]

\* the collections a caller passes: at most MaxDocs documents of the host
Collections ==
    {docs \in {pickDocs(picked) : picked \in SUBSET (1..Len(AllDocs))} :
        Len(docs) <= MaxDocs /\ uniqueIds(docs)}

(***************************************************************************)
(* The texts of the model, and tables of what the string functions yield   *)
(* on them: each table entry is computed by the function, once.            *)
(***************************************************************************)
Queries == {Null, "", "the of", "Smith", "Smith John", "zebra Smith",
            "working", "Irlande"}

\* the terms a query is extended by
ExtraTerms == {"Ireland", "notes", "zebra"}

\* query + ' ' + term
extendQuery(query, term) == toStr(query) \o " " \o term

ExtendedQueries == {extendQuery(q, t) : q \in Queries, t \in ExtraTerms}

\* the collections calculateRelevance is called with directly
ScoringCollections ==
    Collections \cup {<<docLetter, docLetterReordered>>, <<docWill, docWould>>,
                      <<docNotes, docLetter, docWill>>}

ScoringQueries == {Null, "", "Smith", "Smith John", "zebra Smith", "ill"}

ScoringDocs == UNION {Range(docs) : docs \in ScoringCollections}

TableTexts ==
    Queries \cup ExtendedQueries \cup ScoringQueries
    \cup {combinedText(d) : d \in DocCatalog \cup ScoringDocs}
    \cup {d.fileName : d \in DocCatalog \cup ScoringDocs}

\* the texts tokenize is called with directly: words made of a stem and an
\* ending, alone and inside a phrase
WordStems == {"will", "for", "add", "be", "Smith", "the", "x1", "may"}

WordEndings == {"", "s", "ing", "ed", "er", "est", "ly", "tion", "sion", "ness", "ment"}

TokenizeTexts ==
    {Null, "", "  ", "A.B c-d"}
    \cup {stem \o ending : stem \in WordStems, ending \in WordEndings}
    \cup {"The " \o stem \o ending \o ", OF" : stem \in WordStems, ending \in WordEndings}

TokenTable == [text \in TableTexts |-> tokenize(text)]

LowerTable == [text \in TableTexts \ {Null} |-> toLowerCase(text)]

\* this.tokenize(text)
tokensOf(text) == IF text \in TableTexts THEN TokenTable[text] ELSE tokenize(text)

\* text.toLowerCase()
lowerOf(text) == IF text \in DOMAIN LowerTable THEN LowerTable[text] ELSE toLowerCase(text)

docTokens(doc) == tokensOf(combinedText(doc))

docContent(doc) == lowerOf(combinedText(doc))

(***************************************************************************)
(* The inverted index: a Map from term to Set of documentId, both in       *)
(* insertion order.                                                        *)
(***************************************************************************)
indexHas(idx, token) == \E i \in 1..Len(idx) : idx[i].term = token

indexGet(idx, token) ==
    IF indexHas(idx, token)
    THEN idx[CHOOSE i \in 1..Len(idx) : idx[i].term = token].docIds
    ELSE <<>>

\* an indexAdd that registers the document only under a term it creates
indexAddNewKeyOnly(idx, token, docId) ==
    IF indexHas(idx, token) THEN idx
    ELSE Append(idx, [term |-> token, docIds |-> <<docId>>])

\* the body of tokens.forEach in buildIndex
indexAdd(idx, token, docId) ==
    LET withKey == IF indexHas(idx, token) THEN idx
                   ELSE Append(idx, [term |-> token, docIds |-> <<>>])
    IN [i \in 1..Len(withKey) |->
          IF withKey[i].term = token /\ ~SeqIncludes(withKey[i].docIds, docId)
          THEN [withKey[i] EXCEPT !.docIds = Append(@, docId)]
          ELSE withKey[i]]

RECURSIVE indexTokens(_, _, _, _)
indexTokens(idx, tokens, i, docId) ==
    IF i > Len(tokens) THEN idx
    ELSE indexTokens(indexAdd(idx, tokens[i], docId), tokens, i + 1, docId)

\* a documents.forEach that stops after the first document
RECURSIVE indexDocsFirstOnly(_, _, _)
indexDocsFirstOnly(idx, documents, i) ==
    IF i > Len(documents) \/ i > 1 THEN idx
    ELSE indexDocsFirstOnly(indexTokens(idx, docTokens(documents[i]), 1,
                                        documents[i].documentId),
                            documents, i + 1)

RECURSIVE indexDocs(_, _, _)
indexDocs(idx, documents, i) ==
    IF i > Len(documents) THEN idx
    ELSE indexDocs(indexTokens(idx, docTokens(documents[i]), 1,
                               documents[i].documentId),
                   documents, i + 1)

\* a clear() that removes only the oldest key of the Map
clearOldestOnly(idx) == IF idx = <<>> THEN <<>> ELSE Tail(idx)

\* this.searchIndex.clear()
clearIndex(idx) == <<>>

\* a buildIndex that adds to what the Map holds
buildIndexMerging(idx, documents) == indexDocs(idx, documents, 1)

buildIndex(idx, documents) == indexDocs(clearIndex(idx), documents, 1)

(***************************************************************************)
(* Candidate selection.                                                    *)
(***************************************************************************)
RECURSIVE collectIds(_, _, _, _)
collectIds(idx, queryTokens, i, acc) ==
    IF i > Len(queryTokens) THEN acc
    ELSE collectIds(idx, queryTokens, i + 1,
                    acc \cup Range(indexGet(idx, queryTokens[i])))

\* a standardSearch that looks up the first query term only
standardSearchFirstTerm(idx, query, documents) ==
    LET queryTokens == tokensOf(query) IN
    IF Len(queryTokens) = 0 THEN documents
    ELSE LET matchingDocIds == Range(indexGet(idx, queryTokens[1]))
             hit(doc) == doc.documentId \in matchingDocIds
         IN SelectSeq(documents, hit)

\* a standardSearch that requires every query term (AND)
standardSearchAllTerms(idx, query, documents) ==
    LET queryTokens == tokensOf(query) IN
    IF Len(queryTokens) = 0 THEN documents
    ELSE LET hit(doc) ==
                 \A i \in 1..Len(queryTokens) :
                     doc.documentId \in Range(indexGet(idx, queryTokens[i]))
         IN SelectSeq(documents, hit)

\* a standardSearch without the permissive default for a query of no term
standardSearchEmptyOnNoTerms(idx, query, documents) ==
    LET matchingDocIds == collectIds(idx, tokensOf(query), 1, {})
        hit(doc) == doc.documentId \in matchingDocIds
    IN SelectSeq(documents, hit)

standardSearch(idx, query, documents) ==
    LET queryTokens == tokensOf(query) IN
    IF Len(queryTokens) = 0 THEN documents
    ELSE LET matchingDocIds == collectIds(idx, queryTokens, 1, {})
             hit(doc) == doc.documentId \in matchingDocIds
         IN SelectSeq(documents, hit)

\* query.toLowerCase() is a TypeError when query is null or undefined
phraseSearchThrows(query) == query = Null \/ query = Undef

\* a phraseSearch that does not lowercase the query
phraseSearchCaseSensitive(query, documents) ==
    LET hit(doc) == includes(docContent(doc), query)
    IN SelectSeq(documents, hit)

\* the documents phraseSearch returns when it does not throw
phraseSearch(query, documents) ==
    LET normalizedQuery == lowerOf(query)
        hit(doc) == includes(docContent(doc), normalizedQuery)
    IN SelectSeq(documents, hit)

\* the matrix is kept one row at a time: prev is matrix[i - 1], row is the
\* part of matrix[i] filled so far; index j of the code is position j + 1
\* a row in which a substitution costs 2
RECURSIVE fillRowCostlySubstitution(_, _, _, _)
fillRowCostlySubstitution(prev, str1, ch, row) ==
    LET j == Len(row) IN
    IF j > Len(str1) THEN row
    ELSE fillRowCostlySubstitution(prev, str1, ch,
                 Append(row,
                        IF ch = CharAt(str1, j) THEN prev[j]
                        ELSE Min2(prev[j] + 2, Min2(row[j] + 1, prev[j + 1] + 1))))

RECURSIVE fillRow(_, _, _, _)
fillRow(prev, str1, ch, row) ==
    LET j == Len(row) IN
    IF j > Len(str1) THEN row
    ELSE fillRow(prev, str1, ch,
                 Append(row,
                        IF ch = CharAt(str1, j) THEN prev[j]
                        ELSE Min2(prev[j] + 1, Min2(row[j] + 1, prev[j + 1] + 1))))

RECURSIVE fillMatrix(_, _, _, _)
fillMatrix(str1, str2, i, prev) ==
    IF Len(prev) = 0 \/ i > Len(str2) THEN prev[Len(str1) + 1]
    ELSE fillMatrix(str1, str2, i + 1, fillRow(prev, str1, CharAt(str2, i), <<i>>))

editDistance(str1, str2) == fillMatrix(str1, str2, 1, [j \in 1..(Len(str1) + 1) |-> j - 1])

QueryTokenSet == UNION {Range(TokenTable[q]) : q \in Queries \cup ExtendedQueries}

DocTokenSet == UNION {Range(docTokens(d)) : d \in DocCatalog}

DistanceTable == [pair \in QueryTokenSet \X DocTokenSet |-> editDistance(pair[1], pair[2])]

\* this.editDistance(str1, str2)
distanceOf(str1, str2) ==
    IF <<str1, str2>> \in DOMAIN DistanceTable THEN DistanceTable[<<str1, str2>>]
    ELSE editDistance(str1, str2)

\* Maximum edit distance
threshold == 2

\* a fuzzySearch that compares with < threshold
fuzzySearchBelowThreshold(query, documents) ==
    LET queryTokens == tokensOf(query)
        hit(doc) ==
            LET tokens == docTokens(doc) IN
            \E a \in 1..Len(queryTokens) : \E b \in 1..Len(tokens) :
                distanceOf(queryTokens[a], tokens[b]) < threshold
    IN SelectSeq(documents, hit)

\* a fuzzySearch that wants a token near, and not equal
fuzzySearchNearMissOnly(query, documents) ==
    LET queryTokens == tokensOf(query)
        hit(doc) ==
            LET tokens == docTokens(doc) IN
            \E a \in 1..Len(queryTokens) : \E b \in 1..Len(tokens) :
                /\ distanceOf(queryTokens[a], tokens[b]) >= 1
                /\ distanceOf(queryTokens[a], tokens[b]) <= threshold
    IN SelectSeq(documents, hit)

fuzzySearch(query, documents) ==
    LET queryTokens == tokensOf(query)
        hit(doc) ==
            LET tokens == docTokens(doc) IN
            \E a \in 1..Len(queryTokens) : \E b \in 1..Len(tokens) :
                distanceOf(queryTokens[a], tokens[b]) <= threshold
    IN SelectSeq(documents, hit)

(***************************************************************************)
(* Filters.  An omitted filter property is UndefNum, or the empty array.   *)
(* Dates are time values in days, like uploadDate.                         *)
(***************************************************************************)
\* new Date('1900-01-01') and new Date(), as day numbers
farPast == 0
now == 100

\* !value for a number: undefined and 0 are falsy
falsyNum(v) == v = UndefNum \/ v = 0

noFilters ==
    [dateFrom |-> UndefNum, dateTo |-> UndefNum, fileTypes |-> <<>>,
     sources |-> <<>>, tags |-> <<>>, minSize |-> UndefNum, maxSize |-> UndefNum]

dateFilter(results, filters) ==
    IF ~falsyNum(filters.dateFrom) \/ ~falsyNum(filters.dateTo)
    THEN LET fromDate == IF ~falsyNum(filters.dateFrom) THEN filters.dateFrom ELSE farPast
             toDate == IF ~falsyNum(filters.dateTo) THEN filters.dateTo ELSE now
             keep(doc) == doc.uploadDate >= fromDate /\ doc.uploadDate <= toDate
         IN SelectSeq(results, keep)
    ELSE results

fileTypeFilter(results, filters) ==
    IF Len(filters.fileTypes) > 0
    THEN LET keep(doc) ==
                 \E i \in 1..Len(filters.fileTypes) :
                     \/ /\ doc.metadata.fileType # Undef
                        /\ includes(doc.metadata.fileType, filters.fileTypes[i])
                     \/ includes(lowerOf(doc.fileName), filters.fileTypes[i])
         IN SelectSeq(results, keep)
    ELSE results

sourceFilter(results, filters) ==
    IF Len(filters.sources) > 0
    THEN LET keep(doc) == SeqIncludes(filters.sources, doc.metadata.source)
         IN SelectSeq(results, keep)
    ELSE results

tagFilter(results, filters) ==
    IF Len(filters.tags) > 0
    THEN LET keep(doc) ==
                 \E i \in 1..Len(doc.tags) : SeqIncludes(filters.tags, doc.tags[i])
         IN SelectSeq(results, keep)
    ELSE results

\* Infinity is UndefNum in maxSize below: no upper limit
sizeFilter(results, filters) ==
    IF ~falsyNum(filters.minSize) \/ ~falsyNum(filters.maxSize)
    THEN LET minSize == IF falsyNum(filters.minSize) THEN 0 ELSE filters.minSize
             maxSize == IF falsyNum(filters.maxSize) THEN UndefNum ELSE filters.maxSize
             keep(doc) ==
                 LET size == IF falsyNum(doc.metadata.fileSize) THEN 0
                             ELSE doc.metadata.fileSize
                 IN size >= minSize /\ (maxSize = UndefNum \/ size <= maxSize)
         IN SelectSeq(results, keep)
    ELSE results

\* an applyFilters without the source filter
applyFiltersSkippingSource(results, filters) ==
    sizeFilter(tagFilter(fileTypeFilter(dateFilter(results, filters), filters),
                         filters),
               filters)

applyFilters(results, filters) ==
    sizeFilter(tagFilter(sourceFilter(fileTypeFilter(dateFilter(results, filters),
                                                     filters),
                                      filters),
                         filters),
               filters)

(***************************************************************************)
(* Relevance.  Scores are fixed-point numbers, in millionths: lnMicro[n]   *)
(* is Math.log(n) and a quotient is rounded down to the millionth.         *)
(***************************************************************************)
lnMicro == <<0, 693147, 1098612, 1386294, 1609438, 1791759>>

halfMicro == 500000
oneMicro == 1000000

getDocumentFrequency(term, documents) ==
    Cardinality({i \in 1..Len(documents) : SeqIncludes(docTokens(documents[i]), term)})

occurrences(tokens, token) == Cardinality({i \in 1..Len(tokens) : tokens[i] = token})

\* a tf * idf whose idf is Math.log(N / (df + 2))
tfIdfExtraSmoothing(queryToken, tokens, allDocuments) ==
    LET df == getDocumentFrequency(queryToken, allDocuments)
        idf == lnMicro[Len(allDocuments)] - lnMicro[df + 2]
    IN (occurrences(tokens, queryToken) * idf) \div Len(tokens)

\* tf * idf of one query token
tfIdf(queryToken, tokens, allDocuments) ==
    LET df == getDocumentFrequency(queryToken, allDocuments)
        idf == lnMicro[Len(allDocuments)] - lnMicro[df + 1]
    IN (occurrences(tokens, queryToken) * idf) \div Len(tokens)

RECURSIVE sumTfIdf(_, _, _, _)
sumTfIdf(queryTokens, i, tokens, allDocuments) ==
    IF i > Len(queryTokens) THEN 0
    ELSE tfIdf(queryTokens[i], tokens, allDocuments)
         + sumTfIdf(queryTokens, i + 1, tokens, allDocuments)

\* a scorer without the boost for the exact phrase
calculateRelevanceNoPhraseBoost(query, document, allDocuments) ==
    LET queryTokens == tokensOf(query)
        tokens == docTokens(document)
    IN IF Len(queryTokens) = 0 \/ Len(tokens) = 0 THEN 0
       ELSE LET filenameTokens == tokensOf(document.fileName)
                filenameMatches ==
                    Cardinality({i \in 1..Len(queryTokens) :
                                    SeqIncludes(filenameTokens, queryTokens[i])})
            IN sumTfIdf(queryTokens, 1, tokens, allDocuments)
               + filenameMatches * halfMicro

calculateRelevance(query, document, allDocuments) ==
    LET queryTokens == tokensOf(query)
        tokens == docTokens(document)
    IN IF Len(queryTokens) = 0 \/ Len(tokens) = 0 THEN 0
       ELSE LET filenameTokens == tokensOf(document.fileName)
                filenameMatches ==
                    Cardinality({i \in 1..Len(queryTokens) :
                                    SeqIncludes(filenameTokens, queryTokens[i])})
                content == docContent(document)
            IN sumTfIdf(queryTokens, 1, tokens, allDocuments)
               + filenameMatches * halfMicro
               + (IF includes(content, lowerOf(query)) THEN oneMicro ELSE 0)

\* { ...result, relevanceScore }
withScore(result, score) == [relevanceScore |-> score] @@ result

(***************************************************************************)
(* Sorting.  Array.prototype.sort is stable.                               *)
(***************************************************************************)
\* the collation order of the characters of a file name, case ignored
CollationChars == " _.0123456789abcdefghijklmnopqrstuvwxyz"

collationRank(c) ==
    IF c \in CharsOf(CollationChars)
    THEN CHOOSE i \in 1..Len(CollationChars) : CharAt(CollationChars, i) = c
    ELSE 0

\* a.localeCompare(b): -1, 0 or 1
localeCompare(a, b) ==
    LET x == lowerOf(a)
        y == lowerOf(b)
        differ == {i \in 1..Min2(Len(x), Len(y)) : CharAt(x, i) # CharAt(y, i)}
    IN IF differ = {}
       THEN (IF Len(x) < Len(y) THEN -1 ELSE IF Len(x) > Len(y) THEN 1 ELSE 0)
       ELSE LET i == CHOOSE k \in differ : \A m \in differ : k <= m IN
            IF collationRank(CharAt(x, i)) < collationRank(CharAt(y, i)) THEN -1 ELSE 1

sizeKey(doc) == IF falsyNum(doc.metadata.fileSize) THEN 0 ELSE doc.metadata.fileSize

scoreKey(result) == IF falsyNum(result.relevanceScore) THEN 0 ELSE result.relevanceScore

\* the switch of the comparator of sortResults
comparison(a, b, sortBy) ==
    CASE sortBy = "relevance" -> scoreKey(a) - scoreKey(b)
      [] sortBy = "date" -> a.uploadDate - b.uploadDate
      [] sortBy = "name" -> localeCompare(a.fileName, b.fileName)
      [] sortBy = "size" -> sizeKey(a) - sizeKey(b)
      [] OTHER -> 0

\* one step of a stable sort: x goes behind the elements that do not sort after it
insertSorted(sorted, x, sortBy, multiplier) ==
    LET k == Cardinality({i \in 1..Len(sorted) :
                             comparison(sorted[i], x, sortBy) * multiplier <= 0})
    IN SubSeq(sorted, 1, k) \o <<x>> \o SubSeq(sorted, k + 1, Len(sorted))

RECURSIVE sortFrom(_, _, _, _)
sortFrom(results, n, sortBy, multiplier) ==
    IF n = 0 THEN <<>>
    ELSE insertSorted(sortFrom(results, n - 1, sortBy, multiplier), results[n],
                      sortBy, multiplier)

\* a sortResults that ignores sortOrder
sortResultsAscendingOnly(results, sortBy, sortOrder) ==
    sortFrom(results, Len(results), sortBy, 1)

sortResults(results, sortBy, sortOrder) ==
    LET multiplier == IF sortOrder = "desc" THEN -1 ELSE 1
    IN sortFrom(results, Len(results), sortBy, multiplier)

(***************************************************************************)
(* search(query, documents, options)                                       *)
(***************************************************************************)
DefaultLimit == 50

\* the defaults of the destructured options
sortByOf(options) == IF options.sortBy = Undef THEN "relevance" ELSE options.sortBy

sortOrderOf(options) == IF options.sortOrder = Undef THEN "desc" ELSE options.sortOrder

limitOf(options) == IF options.limit = UndefNum THEN DefaultLimit ELSE options.limit

offsetOf(options) == IF options.offset = UndefNum THEN 0 ELSE options.offset

\* a priority that prefers fuzzy to exactPhrase
strategyFuzzyFirst(options) ==
    IF options.fuzzy THEN "fuzzySearch"
    ELSE IF options.exactPhrase THEN "phraseSearch"
    ELSE "standardSearch"

\* which strategy the if / else if / else of search runs
strategyOf(options) ==
    IF options.exactPhrase THEN "phraseSearch"
    ELSE IF options.fuzzy THEN "fuzzySearch"
    ELSE "standardSearch"

\* a selection that yields every candidate twice
selectCandidatesTwice(idx, query, documents, options) ==
    LET strategy == strategyOf(options)
        found == CASE strategy = "phraseSearch" -> phraseSearch(query, documents)
                   [] strategy = "fuzzySearch" -> fuzzySearch(query, documents)
                   [] OTHER -> standardSearch(idx, query, documents)
    IN found \o found

selectCandidates(idx, query, documents, options) ==
    LET strategy == strategyOf(options) IN
    CASE strategy = "phraseSearch" -> phraseSearch(query, documents)
      [] strategy = "fuzzySearch" -> fuzzySearch(query, documents)
      [] OTHER -> standardSearch(idx, query, documents)

\* the call leaves search by an exception
searchThrows(query, options) ==
    strategyOf(options) = "phraseSearch" /\ phraseSearchThrows(query)

scoreResults(results, query, documents) ==
    [i \in 1..Len(results) |->
        withScore(results[i], calculateRelevance(query, results[i], documents))]

\* Which array the variable results names.  standardSearch returns its
\* argument, the caller's array, when the query has no term; every
\* Array.filter creates an array.
candidatesArray(query, options) ==
    IF strategyOf(options) = "standardSearch" /\ Len(tokensOf(query)) = 0
    THEN "documents"
    ELSE "new"

\* let filtered = [...results]
filteredArray(array) == "new"

\* results.map(...)
scoredArray(array) == "new"

\* The objects of a call: the caller's Documents, at the positions of the
\* caller's array, then the objects the call creates.
positionOf(documents, doc) ==
    CHOOSE p \in 1..Len(documents) : documents[p].documentId = doc.documentId

\* a map that assigns relevanceScore to the element itself
scoreObjectInPlace(objects, ref, scored) ==
    [objects |-> [objects EXCEPT ![ref] = scored], ref |-> ref]

\* { ...result, relevanceScore }: a new object
scoreObject(objects, ref, scored) ==
    [objects |-> Append(objects, scored), ref |-> Len(objects) + 1]

\* results.map over the filtered elements i, i + 1, ...; sorted holds what
\* the map yields for each
RECURSIVE scoreObjects(_, _, _, _, _)
scoreObjects(objects, filtered, i, sorted, documents) ==
    IF i > Len(filtered) THEN objects
    ELSE LET scored == CHOOSE s \in Range(sorted) :
                           s.documentId = filtered[i].documentId
         IN scoreObjects(scoreObject(objects, positionOf(documents, filtered[i]),
                                     scored).objects,
                         filtered, i + 1, sorted, documents)

\* the caller's array when search returns: results.sort sorts the array that
\* results names, and the caller's array holds the caller's Documents as the
\* call left them
documentsAfterSearch(filtered, sorted, query, documents, options) ==
    IF scoredArray(filteredArray(candidatesArray(query, options))) = "documents"
    THEN sorted
    ELSE SubSeq(scoreObjects(documents, filtered, 1, sorted, documents),
                1, Len(documents))

\* the local variable results after each stage of search
searchTrace(idx, query, documents, options) ==
    IF searchThrows(query, options)
    THEN [strategy |-> strategyOf(options), threw |-> TRUE,
          candidates |-> <<>>, filtered |-> <<>>, sorted |-> <<>>,
          documents |-> documents]
    ELSE LET candidates == selectCandidates(idx, query, documents, options)
             filtered == applyFilters(candidates, options.filters)
             scored == scoreResults(filtered, query, documents)
             sorted == sortResults(scored, sortByOf(options), sortOrderOf(options))
         IN [strategy |-> strategyOf(options), threw |-> FALSE,
             candidates |-> candidates,
             filtered |-> filtered,
             sorted |-> sorted,
             documents |-> documentsAfterSearch(filtered, sorted, query, documents,
                                                options)]

\* a search that counts total after the page is cut
searchResponseTotalOfPage(tr, query, options) ==
    IF tr.threw THEN [threw |-> TRUE]
    ELSE LET limit == limitOf(options)
             offset == offsetOf(options)
             page == Slice(tr.sorted, offset, offset + limit)
         IN [threw |-> FALSE,
             results |-> page,
             total |-> Len(page),
             query |-> query,
             filters |-> options.filters,
             pagination |-> [limit |-> limit, offset |-> offset,
                             hasMore |-> offset + limit < Len(page)]]

\* a search whose page runs from offset to the end of the list
searchResponseNoLimit(tr, query, options) ==
    IF tr.threw THEN [threw |-> TRUE]
    ELSE LET total == Len(tr.sorted)
             limit == limitOf(options)
             offset == offsetOf(options)
         IN [threw |-> FALSE,
             results |-> Slice(tr.sorted, offset, total),
             total |-> total,
             query |-> query,
             filters |-> options.filters,
             pagination |-> [limit |-> limit, offset |-> offset,
                             hasMore |-> offset + limit < total]]

\* a search whose page is one result longer than limit
searchResponseLongPage(tr, query, options) ==
    IF tr.threw THEN [threw |-> TRUE]
    ELSE LET total == Len(tr.sorted)
             limit == limitOf(options)
             offset == offsetOf(options)
         IN [threw |-> FALSE,
             results |-> Slice(tr.sorted, offset, offset + limit + 1),
             total |-> total,
             query |-> query,
             filters |-> options.filters,
             pagination |-> [limit |-> limit, offset |-> offset,
                             hasMore |-> offset + limit < total]]

\* the object search returns, or the exception that leaves it
searchResponse(tr, query, options) ==
    IF tr.threw THEN [threw |-> TRUE]
    ELSE LET total == Len(tr.sorted)
             limit == limitOf(options)
             offset == offsetOf(options)
         IN [threw |-> FALSE,
             results |-> Slice(tr.sorted, offset, offset + limit),
             total |-> total,
             query |-> query,
             filters |-> options.filters,
             pagination |-> [limit |-> limit, offset |-> offset,
                             hasMore |-> offset + limit < total]]

(***************************************************************************)
(* getSuggestions(partialQuery, documents, limit)                          *)
(***************************************************************************)
DefaultSuggestions == 5

longWord(word) == Len(word) >= 3

\* text.match(/\b\w{3,}\b/g) || []: the maximal runs of word characters that
\* are at least 3 long, in the order of the text
matchWords(text) == SelectSeq(splitWhitespace(replacePunctuation(text)), longWord)

\* suggestions.add(word) under its condition; suggestions is a Set in
\* insertion order
addSuggestion(suggestions, word, normalizedQuery, limit) ==
    IF /\ startsWith(word, normalizedQuery)
       /\ Len(suggestions) < limit * 2
       /\ ~SeqIncludes(suggestions, word)
    THEN Append(suggestions, word)
    ELSE suggestions

\* for (const [term, docIds] of this.searchIndex.entries())
RECURSIVE suggestTerms(_, _, _, _, _)
suggestTerms(suggestions, idx, i, normalizedQuery, limit) ==
    IF i > Len(idx) THEN suggestions
    ELSE suggestTerms(addSuggestion(suggestions, idx[i].term, normalizedQuery, limit),
                      idx, i + 1, normalizedQuery, limit)

\* words.forEach
RECURSIVE suggestWords(_, _, _, _, _)
suggestWords(suggestions, words, i, normalizedQuery, limit) ==
    IF i > Len(words) THEN suggestions
    ELSE suggestWords(addSuggestion(suggestions, words[i], normalizedQuery, limit),
                      words, i + 1, normalizedQuery, limit)

\* documents.forEach
RECURSIVE suggestDocs(_, _, _, _, _)
suggestDocs(suggestions, documents, i, normalizedQuery, limit) ==
    IF i > Len(documents) THEN suggestions
    ELSE suggestDocs(suggestWords(suggestions, matchWords(docContent(documents[i])),
                                  1, normalizedQuery, limit),
                     documents, i + 1, normalizedQuery, limit)

\* one step of sort((a, b) => a.length - b.length): x goes behind the strings
\* that are not longer
insertByLength(sorted, x) ==
    LET k == Cardinality({i \in 1..Len(sorted) : Len(sorted[i]) <= Len(x)})
    IN SubSeq(sorted, 1, k) \o <<x>> \o SubSeq(sorted, k + 1, Len(sorted))

RECURSIVE sortByLength(_, _)
sortByLength(strings, n) ==
    IF n = 0 THEN <<>>
    ELSE insertByLength(sortByLength(strings, n - 1), strings[n])

\* what the Set holds when the two loops are done
collectSuggestions(idx, partialQuery, documents, limit) ==
    LET normalizedQuery == toLowerCase(partialQuery)
    IN suggestDocs(suggestTerms(<<>>, idx, 1, normalizedQuery, limit),
                   documents, 1, normalizedQuery, limit)

suggestionLimit(limit) == IF limit = UndefNum THEN DefaultSuggestions ELSE limit

\* a getSuggestions that does not sort what it returns
getSuggestionsUnsorted(idx, partialQuery, documents, limit) ==
    IF partialQuery \in {Null, Undef, ""} \/ Len(partialQuery) < 2 THEN <<>>
    ELSE Slice(collectSuggestions(idx, partialQuery, documents, suggestionLimit(limit)),
               0, suggestionLimit(limit))

getSuggestions(idx, partialQuery, documents, limit) ==
    IF partialQuery \in {Null, Undef, ""} \/ Len(partialQuery) < 2 THEN <<>>
    ELSE LET found == Slice(collectSuggestions(idx, partialQuery, documents,
                                               suggestionLimit(limit)),
                            0, suggestionLimit(limit))
         IN sortByLength(found, Len(found))

(***************************************************************************)
(* highlightMatches(text, query, className)                                *)
(***************************************************************************)
\* new RegExp(`\\b${token}\\b`, 'gi') matches at position p: the token, in
\* any case, with no word character before or behind it
matchesAt(text, token, p) ==
    /\ p + Len(token) - 1 <= Len(text)
    /\ toLowerCase(SubSeq(text, p, p + Len(token) - 1)) = token
    /\ (p = 1 \/ CharAt(text, p - 1) \notin WordCharSet)
    /\ (p + Len(token) - 1 = Len(text) \/ CharAt(text, p + Len(token)) \notin WordCharSet)

\* `<span class="${className}">$&</span>`
spanOf(match, className) == "<span class=\"" \o className \o "\">" \o match \o "</span>"

\* the matches at the positions given are replaced, the last one first
RECURSIVE replaceAt(_, _, _, _)
replaceAt(text, positions, n, className) ==
    IF positions = {} THEN text
    ELSE LET p == CHOOSE q \in positions : \A r \in positions : r <= q
         IN replaceAt(SubSeq(text, 1, p - 1), positions \ {p}, n, className)
            \o spanOf(SubSeq(text, p, p + n - 1), className)
            \o SubSeq(text, p + n, Len(text))

\* highlightedText.replace(regex, ...)
replaceToken(text, token, className) ==
    replaceAt(text, {p \in 1..Len(text) : matchesAt(text, token, p)}, Len(token),
              className)

\* queryTokens.forEach: each token is replaced in what the tokens before it left
RECURSIVE replaceTokens(_, _, _, _)
replaceTokens(text, queryTokens, i, className) ==
    IF i > Len(queryTokens) THEN text
    ELSE replaceTokens(replaceToken(text, queryTokens[i], className), queryTokens,
                       i + 1, className)

classNameOf(className) == IF className = Undef THEN "highlight" ELSE className

highlightMatches(text, query, className) ==
    IF text \in {Null, Undef, ""} \/ query \in {Null, Undef, ""} THEN text
    ELSE replaceTokens(text, tokenize(query), 1, classNameOf(className))

(***************************************************************************)
(* getSearchAnalytics(searchHistory).  A history entry holds query,        *)
(* resultCount (UndefNum when missing) and timestamp, a time value in days *)
(* like uploadDate; an average is a fixed-point number, in millionths.     *)
(***************************************************************************)
TopQueries == 10
TrendDays == 30

\* the positions of a set, in increasing order
inOrder(positions) ==
    [k \in 1..Cardinality(positions) |->
        CHOOSE i \in positions : Cardinality({j \in positions : j < i}) = k - 1]

\* the entries of a Map that counts keys, in insertion order: each key once,
\* where it first occurs, with the number of its occurrences
countEntries(keys) ==
    LET first == inOrder({i \in 1..Len(keys) : \A j \in 1..(i - 1) : keys[j] # keys[i]})
    IN [k \in 1..Len(first) |->
           [key |-> keys[first[k]],
            count |-> Cardinality({i \in 1..Len(keys) : keys[i] = keys[first[k]]})]]

\* sort((a, b) => b[1] - a[1]), one step: x goes behind the entries whose
\* count is not smaller
insertByCount(sorted, x) ==
    LET k == Cardinality({i \in 1..Len(sorted) : sorted[i].count >= x.count})
    IN SubSeq(sorted, 1, k) \o <<x>> \o SubSeq(sorted, k + 1, Len(sorted))

RECURSIVE sortByCount(_, _)
sortByCount(entries, n) ==
    IF n = 0 THEN <<>> ELSE insertByCount(sortByCount(entries, n - 1), entries[n])

\* sort((a, b) => new Date(a.date) - new Date(b.date)), one step
insertByDate(sorted, x) ==
    LET k == Cardinality({i \in 1..Len(sorted) : sorted[i].key <= x.key})
    IN SubSeq(sorted, 1, k) \o <<x>> \o SubSeq(sorted, k + 1, Len(sorted))

RECURSIVE sortByDate(_, _)
sortByDate(entries, n) ==
    IF n = 0 THEN <<>> ELSE insertByDate(sortByDate(entries, n - 1), entries[n])

queriesOf(searchHistory) == [i \in 1..Len(searchHistory) |-> searchHistory[i].query]

RECURSIVE sumResultCount(_, _)
sumResultCount(searchHistory, n) ==
    IF n = 0 THEN 0
    ELSE sumResultCount(searchHistory, n - 1)
         + (IF falsyNum(searchHistory[n].resultCount) THEN 0
            ELSE searchHistory[n].resultCount)

\* a topQueries that is not cut to 10 entries
topQueriesUncut(searchHistory) ==
    LET entries == countEntries(queriesOf(searchHistory))
        ranked == sortByCount(entries, Len(entries))
    IN [i \in 1..Len(ranked) |-> [query |-> ranked[i].key, count |-> ranked[i].count]]

topQueries(searchHistory) ==
    LET entries == countEntries(queriesOf(searchHistory))
        ranked == Slice(sortByCount(entries, Len(entries)), 0, TopQueries)
    IN [i \in 1..Len(ranked) |-> [query |-> ranked[i].key, count |-> ranked[i].count]]

searchTrends(searchHistory) ==
    LET thirtyDaysAgo == now - TrendDays
        recent(search) == search.timestamp >= thirtyDaysAgo
        kept == SelectSeq(searchHistory, recent)
        entries == countEntries([i \in 1..Len(kept) |-> kept[i].timestamp])
        ordered == sortByDate(entries, Len(entries))
    IN [i \in 1..Len(ordered) |-> [date |-> ordered[i].key, count |-> ordered[i].count]]

getSearchAnalytics(searchHistory) ==
    LET totalSearches == Len(searchHistory)
        uniqueQueries == Cardinality(Range(queriesOf(searchHistory)))
    IN IF totalSearches = 0
       THEN [totalSearches |-> totalSearches, uniqueQueries |-> uniqueQueries,
             averageResultsPerSearch |-> 0, topQueries |-> <<>>, searchTrends |-> <<>>]
       ELSE [totalSearches |-> totalSearches, uniqueQueries |-> uniqueQueries,
             averageResultsPerSearch |->
                 (sumResultCount(searchHistory, totalSearches) * oneMicro)
                 \div totalSearches,
             topQueries |-> topQueries(searchHistory),
             searchTrends |-> searchTrends(searchHistory)]

(***************************************************************************)
(* The error handler.  An errorInfo is modelled by its ordinal: the n-th   *)
(* error that processError has turned into an errorInfo is n.  Its type,   *)
(* severity, message and context are not modelled.                         *)
(***************************************************************************)
maxLogSize == 1000

\* the number of entries that logError writes to localStorage
storedErrors == 100

\* the kinds of value a handler is given as its error
ErrorArgs == {"Error", "circular", "null"}

\* the errors the specialised handlers are given
HandlerArgs == {"Error", "null"}

\* processError throws where JSON.stringify does: an object without message
\* and error that holds a cycle
processErrorThrows(error) == error = "circular"

\* the specialised handlers read a property of error before anything else
readsOfNullThrow(error) == error = "null"

\* push in place of unshift: the new entry at the end
logErrorPush(log, errorInfo) ==
    LET pushed == Append(log, errorInfo)
    IN IF Len(pushed) > maxLogSize THEN Slice(pushed, 0, maxLogSize) ELSE pushed

\* this.errorLog after logError: unshift, then slice(0, maxLogSize)
logError(log, errorInfo) ==
    LET unshifted == <<errorInfo>> \o log
    IN IF Len(unshifted) > maxLogSize THEN Slice(unshifted, 0, maxLogSize)
       ELSE unshifted

recentErrors(log) == Slice(log, 0, storedErrors)

noItem == [present |-> FALSE, entries |-> <<>>]

\* the item after the try block of logError; fails: JSON.stringify or setItem
\* threw, which the catch swallows
storeLog(item, log, fails) ==
    IF fails THEN item ELSE [present |-> TRUE, entries |-> recentErrors(log)]

\* via: who called handleError (the host, a listener of the window, a
\* specialised handler)
noErrorCall == [op |-> "none", via |-> "none", logged |-> FALSE, stored |-> FALSE]

\* failures: the writes to localStorage that failed; reset: the log has been
\* emptied; since: the errors logged since it was last empty
newRun == [failures |-> 0, reset |-> FALSE, since |-> 0]

(***************************************************************************)
(* The calls the host makes.                                               *)
(***************************************************************************)
defaultOptions ==
    [filters |-> noFilters, sortBy |-> Undef, sortOrder |-> Undef,
     limit |-> UndefNum, offset |-> UndefNum, fuzzy |-> FALSE, exactPhrase |-> FALSE]

FilterChoices ==
    {noFilters,
     [noFilters EXCEPT !.maxSize = 2],
     [noFilters EXCEPT !.tags = <<"ireland">>, !.fileTypes = <<"jpg", "pdf">>]}

SortChoices ==
    {<<Undef, Undef>>, <<"relevance", "asc">>, <<"size", "desc">>,
     <<"name", "asc">>, <<"date", "desc">>}

\* every strategy with every page, and the standard strategy with every filter
\* and every sort
OptionChoices ==
    {[defaultOptions EXCEPT !.exactPhrase = e, !.fuzzy = f, !.limit = l, !.offset = o] :
        e \in BOOLEAN, f \in BOOLEAN, l \in 0..MaxLimit, o \in 0..MaxOffset}
    \cup
    {[defaultOptions EXCEPT !.filters = fl, !.sortBy = so[1], !.sortOrder = so[2],
                            !.limit = p, !.offset = p] :
        fl \in FilterChoices, so \in SortChoices, p \in {UndefNum, 1}}

\* documents: the caller's array when the call returns
noTrace ==
    [strategy |-> Undef, threw |-> FALSE,
     candidates |-> <<>>, filtered |-> <<>>, sorted |-> <<>>, documents |-> <<>>]

neverBuilt == [built |-> FALSE, documents |-> <<>>]

noResponse == [threw |-> FALSE]

\* the filters applyFilters is called with directly: every family of filter
\* absent or present, and the size limits absent, 0 or positive
SizeChoices ==
    {<<UndefNum, UndefNum>>, <<2, UndefNum>>, <<UndefNum, 2>>, <<UndefNum, 0>>,
     <<0, 0>>, <<1, 0>>}

FilterInputs ==
    {[dateFrom |-> df, dateTo |-> dt, fileTypes |-> ft, sources |-> sr, tags |-> tg,
      minSize |-> sz[1], maxSize |-> sz[2]] :
        df \in {UndefNum, 15}, dt \in {UndefNum, 25},
        ft \in {<<>>, <<"pdf">>}, sr \in {<<>>, <<"scan", "upload">>},
        tg \in {<<>>, <<"ireland">>}, sz \in SizeChoices}

\* the scored results sortResults is called with directly
SortInputs ==
    {scoreResults(docs, query, docs) : docs \in Collections,
                                       query \in {"Smith", "zebra Smith"}}

SortByChoices == {Undef, "relevance", "date", "name", "size"}

SortOrderChoices == {Undef, "asc", "desc"}

\* position: which document of documents calculateRelevance scores;
\* previous: what the index was built from when buildIndex was called
\* the arguments getSuggestions is called with
PartialQueries == {Null, "", "s", "sm", "Sm", "fa", "ce", "zz"}

SuggestionLimits == {UndefNum, 0, 1, 2}

\* the arguments highlightMatches is called with
HighlightTexts == {Null, "", "Smith and John Smith-Jones", "A span of working class"}

HighlightQueries == {Null, "", "smith", "Smith John", "class span working"}

ClassNames == {Undef, "hit"}

\* the histories getSearchAnalytics is called with: every short history, and
\* one of 13 searches for 11 queries
MaxHistory == 2

HistoryEntries ==
    {[query |-> q, resultCount |-> c, timestamp |-> t] :
        q \in {"Smith", "census"}, c \in {UndefNum, 0, 3}, t \in {60, 90}}

longHistory ==
    LET queries == <<"a", "b", "c", "d", "e", "f", "g", "h", "i", "j", "k", "k", "a">>
    IN [i \in 1..Len(queries) |->
           [query |-> queries[i], resultCount |-> i, timestamp |-> 60 + 3 * i]]

Histories ==
    UNION {[1..n -> HistoryEntries] : n \in 0..MaxHistory} \cup {longHistory}

\* the strings editDistance is called with: every string of at most
\* MaxWordLen letters a and b, and the example of the documentation
MaxWordLen == 3

RECURSIVE StringsUpTo(_)
StringsUpTo(n) ==
    IF n = 0 THEN {""}
    ELSE LET shorter == StringsUpTo(n - 1)
         IN shorter \cup {s \o c : s \in shorter, c \in {"a", "b"}}

DistancePairs == (StringsUpTo(MaxWordLen) \X StringsUpTo(MaxWordLen))
                 \cup {<<"kitten", "sitting">>}

\* the words stemWord is called with: a stem and two endings
StemWords ==
    {stem \o first \o second :
        stem \in {"work", "be", "x"}, first \in WordEndings, second \in WordEndings}

idleCall ==
    [op |-> "idle", query |-> Undef, documents |-> <<>>,
     options |-> defaultOptions, repeated |-> FALSE,
     position |-> 0, previous |-> neverBuilt]

Init ==
    /\ searchIndex = <<>>
    /\ indexedDocs = neverBuilt
    /\ call = idleCall
    /\ trace = noTrace
    /\ response = noResponse
    /\ errorLog = <<>>
    /\ storedLog = noItem
    /\ handled = 0
    /\ errorCall = noErrorCall
    /\ errorRun = newRun

\* The service is synchronous and single-threaded: a call starts when no call
\* is running (Idle, in Next).  The state of a call is its arguments, its
\* locals and what it returns; Return discards them.

\* repeated: the index was last built from this same collection
BuildIndex(documents) ==
    /\ searchIndex' = buildIndex(searchIndex, documents)
    /\ indexedDocs' = [built |-> TRUE, documents |-> documents]
    /\ call' = [idleCall EXCEPT !.op = "buildIndex", !.documents = documents,
                                !.repeated = (indexedDocs.built
                                              /\ indexedDocs.documents = documents),
                                !.previous = indexedDocs]
    /\ trace' = noTrace
    /\ response' = noResponse
    /\ UNCHANGED errorVars

Search(query, documents, options) ==
    /\ call' = [idleCall EXCEPT !.op = "search", !.query = query,
                                !.documents = documents, !.options = options]
    /\ trace' = searchTrace(searchIndex, query, documents, options)
    /\ response' = searchResponse(trace', query, options)
    /\ UNCHANGED <<searchIndex, indexedDocs>>
    /\ UNCHANGED errorVars

\* the methods of the service that read no state, called directly
Tokenize(text) ==
    /\ call' = [idleCall EXCEPT !.op = "tokenize", !.query = text]
    /\ trace' = noTrace
    /\ response' = [threw |-> FALSE, tokens |-> tokenize(text)]
    /\ UNCHANGED <<searchIndex, indexedDocs>>
    /\ UNCHANGED errorVars

CalculateRelevance(query, position, allDocuments) ==
    /\ call' = [idleCall EXCEPT !.op = "calculateRelevance", !.query = query,
                                !.documents = allDocuments, !.position = position]
    /\ trace' = noTrace
    /\ response' = [threw |-> FALSE,
                    score |-> calculateRelevance(query, allDocuments[position],
                                                 allDocuments)]
    /\ UNCHANGED <<searchIndex, indexedDocs>>
    /\ UNCHANGED errorVars

ApplyFilters(results, filters) ==
    /\ call' = [idleCall EXCEPT !.op = "applyFilters", !.documents = results,
                                !.options = [defaultOptions EXCEPT !.filters = filters]]
    /\ trace' = noTrace
    /\ response' = [threw |-> FALSE, results |-> applyFilters(results, filters)]
    /\ UNCHANGED <<searchIndex, indexedDocs>>
    /\ UNCHANGED errorVars

SortResults(results, sortBy, sortOrder) ==
    /\ call' = [idleCall EXCEPT !.op = "sortResults", !.documents = results,
                                !.options = [defaultOptions EXCEPT !.sortBy = sortBy,
                                                                   !.sortOrder = sortOrder]]
    /\ trace' = noTrace
    /\ response' = [threw |-> FALSE, results |-> sortResults(results, sortBy, sortOrder)]
    /\ UNCHANGED <<searchIndex, indexedDocs>>
    /\ UNCHANGED errorVars

GetSuggestions(partialQuery, documents, limit) ==
    /\ call' = [idleCall EXCEPT !.op = "getSuggestions", !.query = partialQuery,
                                !.documents = documents,
                                !.options = [defaultOptions EXCEPT !.limit = limit]]
    /\ trace' = noTrace
    /\ response' = [threw |-> FALSE,
                    suggestions |-> getSuggestions(searchIndex, partialQuery,
                                                   documents, limit)]
    /\ UNCHANGED <<searchIndex, indexedDocs>>
    /\ UNCHANGED errorVars

\* text: the first argument of highlightMatches
HighlightMatches(text, query, className) ==
    /\ call' = [idleCall EXCEPT !.op = "highlightMatches", !.query = query]
    /\ trace' = noTrace
    /\ response' = [threw |-> FALSE, text |-> text, className |-> className,
                    highlightedText |-> highlightMatches(text, query, className)]
    /\ UNCHANGED <<searchIndex, indexedDocs>>
    /\ UNCHANGED errorVars

\* searchHistory: the argument of getSearchAnalytics
GetSearchAnalytics(searchHistory) ==
    /\ call' = [idleCall EXCEPT !.op = "getSearchAnalytics"]
    /\ trace' = noTrace
    /\ response' = [threw |-> FALSE, searchHistory |-> searchHistory,
                    analytics |-> getSearchAnalytics(searchHistory)]
    /\ UNCHANGED <<searchIndex, indexedDocs>>
    /\ UNCHANGED errorVars

EditDistance(str1, str2) ==
    /\ call' = [idleCall EXCEPT !.op = "editDistance"]
    /\ trace' = noTrace
    /\ response' = [threw |-> FALSE, str1 |-> str1, str2 |-> str2,
                    distance |-> editDistance(str1, str2)]
    /\ UNCHANGED <<searchIndex, indexedDocs>>
    /\ UNCHANGED errorVars

StemWord(word) ==
    /\ call' = [idleCall EXCEPT !.op = "stemWord", !.query = word]
    /\ trace' = noTrace
    /\ response' = [threw |-> FALSE, stem |-> stemWord(word)]
    /\ UNCHANGED <<searchIndex, indexedDocs>>
    /\ UNCHANGED errorVars

Return ==
    /\ call.op # "idle"
    /\ call' = idleCall
    /\ trace' = noTrace
    /\ response' = noResponse
    /\ UNCHANGED <<searchIndex, indexedDocs>>
    /\ UNCHANGED errorVars

Idle == call.op = "idle"

Next ==
    \/ Idle /\ \E documents \in Collections : BuildIndex(documents)
    \/ Idle /\ \E query \in Queries, documents \in Collections,
                   options \in OptionChoices :
                  Search(query, documents, options)
    \/ Idle /\ \E text \in TokenizeTexts : Tokenize(text)
    \/ Idle /\ \E query \in ScoringQueries, allDocuments \in ScoringCollections :
                  \E position \in 1..Len(allDocuments) :
                      CalculateRelevance(query, position, allDocuments)
    \/ Idle /\ \E results \in Collections, filters \in FilterInputs :
                  ApplyFilters(results, filters)
    \/ Idle /\ \E results \in SortInputs, sortBy \in SortByChoices,
                   sortOrder \in SortOrderChoices :
                  SortResults(results, sortBy, sortOrder)
    \/ Idle /\ \E partialQuery \in PartialQueries, documents \in Collections,
                   limit \in SuggestionLimits :
                  GetSuggestions(partialQuery, documents, limit)
    \/ Idle /\ \E text \in HighlightTexts, query \in HighlightQueries,
                   className \in ClassNames :
                  HighlightMatches(text, query, className)
    \/ Idle /\ \E searchHistory \in Histories : GetSearchAnalytics(searchHistory)
    \/ Idle /\ \E pair \in DistancePairs : EditDistance(pair[1], pair[2])
    \/ Idle /\ \E word \in StemWords : StemWord(word)
    \/ Return

Spec == Init /\ [][Next]_vars

(***************************************************************************)
(* The calls of the error handler.  Each runs to its end in one step.      *)
(***************************************************************************)
MaxHandled == 1002

MaxAfterReset == 2

MaxStorageFailures == 1

CanHandle ==
    /\ handled < MaxHandled
    /\ errorRun.reset => errorRun.since < MaxAfterReset

CanFail(fails) == fails => errorRun.failures < MaxStorageFailures

\* a call that throws before logError
Throws(via) ==
    /\ errorCall' = [noErrorCall EXCEPT !.op = "handleError", !.via = via]
    /\ UNCHANGED <<errorLog, storedLog, handled, errorRun>>

\* handleError: processError, then logError
Handle(via, error, fails) ==
    IF processErrorThrows(error) THEN Throws(via)
    ELSE /\ handled' = handled + 1
         /\ errorLog' = logError(errorLog, handled')
         /\ storedLog' = storeLog(storedLog, errorLog', fails)
         /\ errorCall' = [op |-> "handleError", via |-> via,
                          logged |-> TRUE, stored |-> ~fails]
         /\ errorRun' = [errorRun EXCEPT
                            !.since = @ + 1,
                            !.failures = IF fails THEN @ + 1 ELSE @]

\* a specialised handler: it makes a message of its own and hands that
\* string to handleError
Specialised(error, fails) ==
    IF readsOfNullThrow(error) THEN Throws("handler")
    ELSE Handle("handler", "string", fails)

HandleError(error, fails) ==
    /\ Handle("host", error, fails)
    /\ UNCHANGED searchVars

UnhandledRejection(reason, fails) ==
    /\ Handle("listener", reason, fails)
    /\ UNCHANGED searchVars

WindowError(error, fails) ==
    /\ Handle("listener", error, fails)
    /\ UNCHANGED searchVars

HandleFileUploadError(error, fails) ==
    /\ Specialised(error, fails)
    /\ UNCHANGED searchVars

HandleOCRError(error, fails) ==
    /\ Specialised(error, fails)
    /\ UNCHANGED searchVars

HandleAuthError(error, fails) ==
    /\ Specialised(error, fails)
    /\ UNCHANGED searchVars

HandleSubscriptionError(error, fails) ==
    /\ Specialised(error, fails)
    /\ UNCHANGED searchVars

HandleNetworkError(error, fails) ==
    /\ Specialised(error, fails)
    /\ UNCHANGED searchVars

ClearErrorLog ==
    /\ errorLog' = <<>>
    /\ storedLog' = noItem
    /\ errorCall' = [noErrorCall EXCEPT !.op = "clearErrorLog"]
    /\ errorRun' = [errorRun EXCEPT !.reset = TRUE, !.since = 0]
    /\ UNCHANGED handled
    /\ UNCHANGED searchVars

\* the page is loaded again: the module makes a new ErrorHandler, and
\* localStorage is as it was
NewErrorHandler ==
    /\ errorLog' = <<>>
    /\ errorCall' = [noErrorCall EXCEPT !.op = "constructor"]
    /\ errorRun' = [errorRun EXCEPT !.reset = TRUE, !.since = 0]
    /\ UNCHANGED <<storedLog, handled>>
    /\ UNCHANGED searchVars

ErrorNext ==
    \/ CanHandle /\ \E error \in ErrorArgs, fails \in BOOLEAN :
                       CanFail(fails) /\ HandleError(error, fails)
    \/ CanHandle /\ \E reason \in ErrorArgs, fails \in BOOLEAN :
                       CanFail(fails) /\ UnhandledRejection(reason, fails)
    \/ CanHandle /\ \E error \in ErrorArgs, fails \in BOOLEAN :
                       CanFail(fails) /\ WindowError(error, fails)
    \/ CanHandle /\ \E error \in HandlerArgs, fails \in BOOLEAN :
                       CanFail(fails) /\ HandleFileUploadError(error, fails)
    \/ CanHandle /\ \E error \in HandlerArgs, fails \in BOOLEAN :
                       CanFail(fails) /\ HandleOCRError(error, fails)
    \/ CanHandle /\ \E error \in HandlerArgs, fails \in BOOLEAN :
                       CanFail(fails) /\ HandleAuthError(error, fails)
    \/ CanHandle /\ \E error \in HandlerArgs, fails \in BOOLEAN :
                       CanFail(fails) /\ HandleSubscriptionError(error, fails)
    \/ CanHandle /\ \E error \in HandlerArgs, fails \in BOOLEAN :
                       CanFail(fails) /\ HandleNetworkError(error, fails)
    \/ ClearErrorLog
    \/ NewErrorHandler

ErrorSpec == Init /\ [][ErrorNext]_vars

(***************************************************************************)
(* Properties.                                                             *)
(***************************************************************************)
IsSearch == call.op = "search"

Returned == IsSearch /\ ~response.threw

Ran(strategy) == IsSearch /\ trace.strategy = strategy

\* buildIndex(D) was the most recent buildIndex call, and D is searched
Fresh == indexedDocs.built /\ indexedDocs.documents = call.documents

IndexKeys(idx) == {idx[i].term : i \in 1..Len(idx)}

\* a sequence of documents without repetition
NoRepeat(docs) == \A i, j \in 1..Len(docs) : docs[i] = docs[j] => i = j

\* the documents of D that share a term with the query
SharingTerm(query, D) ==
    {d \in Range(D) : Range(tokenize(combinedText(d))) \cap Range(tokenize(query)) # {}}

\* C1: a standard search without filters over a fresh index, for a query of
\* at least one term, selects exactly the documents of D that share a term
\* with the query, and total counts them; search("Smith", [d1, d2]) finds
\* both example documents.
C1_StandardSearchIsExactOr ==
    (Ran("standardSearch") /\ Fresh /\ call.options.filters = noFilters
        /\ Len(tokenize(call.query)) >= 1)
    => /\ Range(trace.candidates) = SharingTerm(call.query, call.documents)
       /\ NoRepeat(trace.candidates)
       /\ response.total = Cardinality(SharingTerm(call.query, call.documents))
       /\ (call.query = "Smith" /\ call.documents = <<docCensus, docImmigration>>
              => trace.candidates = call.documents /\ response.total = 2)

\* a fresh standard search of two terms that selects one document of two
C1_Witness ==
    /\ Ran("standardSearch") /\ Fresh /\ call.options.filters = noFilters
    /\ call.query = "Smith John"
    /\ call.documents = <<docImmigration, docCensusEdited>>
    /\ trace.candidates = <<docImmigration>>
    /\ response.total = 1

\* each term maps to exactly the ids of the documents of D that contain it
Reflects(idx, D) ==
    \A term \in IndexKeys(idx) \cup DocTokenSet :
        Range(indexGet(idx, term))
            = {d.documentId : d \in {x \in Range(D) : term \in Range(docTokens(x))}}

\* C2 as stated: whenever a standard search runs over D, whatever calls came
\* before, the index reflects D.
C2_IndexAlwaysReflectsSearched ==
    Ran("standardSearch") => Reflects(searchIndex, call.documents)

\* C2, amended: when a standard search runs over D and the most recent
\* buildIndex call was buildIndex(D), the index reflects D.
C2_IndexReflectsWhenFresh ==
    (Ran("standardSearch") /\ Fresh) => Reflects(searchIndex, call.documents)

\* a fresh standard search over two documents that share terms
C2_Witness ==
    /\ Ran("standardSearch") /\ Fresh
    /\ call.documents = <<docCensus, docImmigration>>
    /\ indexGet(searchIndex, "smith") = <<"d1", "d2">>

\* C3: exactly one strategy runs, chosen by exactPhrase > fuzzy > standard;
\* with both options true the candidates are those of phrase search.
C3_StrategyPriority ==
    IsSearch =>
        LET o == call.options IN
        /\ trace.strategy \in {"phraseSearch", "fuzzySearch", "standardSearch"}
        /\ o.exactPhrase => trace.strategy = "phraseSearch"
        /\ (~o.exactPhrase /\ o.fuzzy) => trace.strategy = "fuzzySearch"
        /\ (~o.exactPhrase /\ ~o.fuzzy) => trace.strategy = "standardSearch"
        /\ (o.exactPhrase /\ ~trace.threw)
               => trace.candidates = phraseSearch(call.query, call.documents)
        /\ (~o.exactPhrase /\ o.fuzzy)
               => trace.candidates = fuzzySearch(call.query, call.documents)
        /\ (~o.exactPhrase /\ ~o.fuzzy)
               => trace.candidates
                      = standardSearch(searchIndex, call.query, call.documents)

\* both options true, on a query the two strategies answer differently
C3_Witness ==
    /\ IsSearch /\ call.options.exactPhrase /\ call.options.fuzzy
    /\ trace.candidates = <<>>
    /\ fuzzySearch(call.query, call.documents) # <<>>

\* C4: total is the number of candidates that survive the filters, counted
\* before the page is cut; results is positions offset .. offset + limit - 1
\* (counted from 0) of the filtered and sorted list; hasMore is true exactly
\* when offset + limit < total.
C4_TotalPageAndHasMore ==
    Returned =>
        LET limit == response.pagination.limit
            offset == response.pagination.offset
            last == Min2(offset + limit, response.total)
        IN /\ trace.filtered = applyFilters(trace.candidates, call.options.filters)
           /\ response.total = Len(trace.filtered)
           /\ Len(trace.sorted) = Len(trace.filtered)
           /\ Len(response.results) = Max2(last - offset, 0)
           /\ \A i \in 1..Len(response.results) :
                  response.results[i] = trace.sorted[offset + i]
           /\ response.pagination.hasMore <=> (offset + limit < response.total)

\* a filter removes a candidate, and the page holds less than what is left
C4_Witness ==
    /\ Returned
    /\ Len(trace.filtered) < Len(trace.candidates)
    /\ response.total = 1
    /\ response.pagination.offset = 1
    /\ response.results = <<>>
    /\ ~response.pagination.hasMore

\* C5 as stated: results.length <= min(limit, total - offset) for all
\* non-negative limit and offset.
C5_PageWithinMinOfLimitAndRest ==
    Returned =>
        Len(response.results)
            <= Min2(response.pagination.limit,
                    response.total - response.pagination.offset)

\* C5, amended: results.length <= min(limit, total - offset) when
\* offset <= total, and results is empty when offset > total.
C5_PageWithinLimitAndRest ==
    Returned =>
        LET limit == response.pagination.limit
            offset == response.pagination.offset
        IN /\ offset <= response.total
                  => Len(response.results) <= Min2(limit, response.total - offset)
           /\ offset > response.total => Len(response.results) = 0

\* a page asked beyond the end of a list that is not empty
C5_Witness ==
    /\ Returned
    /\ response.total >= 1
    /\ response.pagination.offset > response.total
    /\ response.pagination.limit >= 1
    /\ response.results = <<>>

\* the lowercased text of the document contains the lowercased query verbatim
ContainsLiteral(doc, query) ==
    includes(toLowerCase(toStr(doc.ocrText) \o " " \o doc.fileName), toLowerCase(query))

\* the documents of D, in the order of D, that satisfy Test
Matching(D, Test(_)) == SelectSeq(D, Test)

\* C6: for a query of no term (empty, null, stop words or short tokens only)
\* standard search takes all the documents passed as candidates, whatever
\* the index holds; phrase search on such a query (a string) takes only the
\* documents that contain it literally.
C6_NoTermQuery ==
    /\ (Ran("standardSearch") /\ Len(tokenize(call.query)) = 0)
           => trace.candidates = call.documents
    /\ (Ran("phraseSearch") /\ ~trace.threw /\ Len(tokenize(call.query)) = 0)
           => LET Literal(doc) == ContainsLiteral(doc, call.query)
              IN trace.candidates = Matching(call.documents, Literal)

\* a stop-word query over documents the index does not hold: standard search
\* takes them all, phrase search would take none
C6_Witness ==
    /\ Ran("standardSearch")
    /\ call.query = "the of"
    /\ indexedDocs.built /\ indexedDocs.documents = <<docNotes>>
    /\ call.documents = <<docCensus, docImmigration>>
    /\ trace.candidates = call.documents
    /\ phraseSearch(call.query, call.documents) = <<>>

\* the candidates of the running call are among those of the query extended
StaysWhenExtended(term) ==
    Range(trace.candidates)
        \subseteq Range(standardSearch(searchIndex, extendQuery(call.query, term),
                                       call.documents))

\* C7 as stated: for any query (a string), adding a term never shrinks the
\* candidate set of standard search.
C7_AddingTermNeverShrinks ==
    (Ran("standardSearch") /\ call.query # Null)
    => \A term \in ExtraTerms : StaysWhenExtended(term)

\* C7, amended: for any query that tokenizes to at least one term, adding a
\* term never shrinks the candidate set of standard search.
C7_AddingTermToTermsNeverShrinks ==
    (Ran("standardSearch") /\ Len(tokenize(call.query)) >= 1)
    => \A term \in ExtraTerms : StaysWhenExtended(term)

\* a query of one term whose candidate set grows with the added term
C7_Witness ==
    /\ Ran("standardSearch") /\ Fresh
    /\ call.query = "working"
    /\ call.documents = <<docCensus, docImmigration>>
    /\ trace.candidates = <<docCensus>>
    /\ standardSearch(searchIndex, extendQuery(call.query, "Ireland"), call.documents)
           = call.documents

\* C8: phrase search selects exactly the documents whose lowercased
\* ocrText + ' ' + fileName contains the lowercased query as a substring,
\* whatever the index holds; "Smith John" selects both example documents.
C8_PhraseSearchIsLiteral ==
    (Ran("phraseSearch") /\ ~trace.threw)
    => LET Literal(doc) == ContainsLiteral(doc, call.query)
       IN /\ trace.candidates = Matching(call.documents, Literal)
          /\ (call.query = "Smith John"
                 /\ call.documents = <<docCensus, docImmigration>>)
                 => trace.candidates = call.documents

\* the example of the specification, before any index is built
C8_Witness ==
    /\ Ran("phraseSearch")
    /\ ~indexedDocs.built
    /\ call.query = "Smith John"
    /\ call.documents = <<docCensus, docImmigration>>
    /\ trace.candidates = call.documents

\* the Levenshtein distance of a and b is at most k
RECURSIVE LevWithin(_, _, _)
LevWithin(a, b, k) ==
    IF k < 0 THEN FALSE
    ELSE IF Len(a) = 0 THEN Len(b) <= k
    ELSE IF Len(b) = 0 THEN Len(a) <= k
    ELSE IF Head(a) = Head(b) THEN LevWithin(Tail(a), Tail(b), k)
    ELSE \/ LevWithin(Tail(a), Tail(b), k - 1)
         \/ LevWithin(Tail(a), b, k - 1)
         \/ LevWithin(a, Tail(b), k - 1)

\* a token of the query is within distance 2 of a token of the document
FuzzyMatch(doc, query) ==
    \E a \in Range(tokenize(query)) :
        \E b \in Range(tokenize(combinedText(doc))) : LevWithin(a, b, 2)

\* C9: fuzzy search selects exactly the documents with a token within
\* Levenshtein distance 2 of a token of the query, whatever the index holds.
C9_FuzzySearchWithinTwo ==
    Ran("fuzzySearch")
    => LET Near(doc) == FuzzyMatch(doc, call.query)
       IN trace.candidates = Matching(call.documents, Near)

\* a query at distance 2 of a token of one document, over an index built
\* from another collection
C9_Witness ==
    /\ Ran("fuzzySearch")
    /\ call.query = "Irlande"
    /\ indexedDocs.built /\ indexedDocs.documents = <<docNotes>>
    /\ call.documents = <<docCensus, docImmigration>>
    /\ trace.candidates = <<docImmigration>>
    /\ standardSearch(searchIndex, call.query, call.documents) = <<>>

\* C10: buildIndex(D) called when the index was last built from D leaves the
\* index as it is, so that every standard search over D is answered as before.
C10_BuildIndexIdempotent ==
    [][(Idle /\ call'.op = "buildIndex" /\ indexedDocs.built
           /\ indexedDocs.documents = call'.documents)
       => /\ searchIndex' = searchIndex
          /\ \A q \in Queries :
                 standardSearch(searchIndex', q, call'.documents)
                     = standardSearch(searchIndex, q, call'.documents)]_vars

\* buildIndex has run a second time on a collection of two documents
C10_Witness ==
    /\ call.op = "buildIndex" /\ call.repeated
    /\ call.documents = <<docCensus, docImmigration>>
    /\ Len(searchIndex) = 10


\* C11: buildIndex replaces what the index held: after buildIndex(D1) and then
\* buildIndex(D2) the index is the one buildIndex(D2) yields on a new
\* service, and every term and document id in it comes from a document of D2.
C11_RebuildReplaces ==
    call.op = "buildIndex" =>
        /\ searchIndex = buildIndex(<<>>, call.documents)
        /\ \A i \in 1..Len(searchIndex) :
              \A id \in Range(searchIndex[i].docIds) :
                  \E d \in Range(call.documents) :
                      /\ d.documentId = id
                      /\ SeqIncludes(docTokens(d), searchIndex[i].term)

\* buildIndex([d3]) after buildIndex([d1, d2]): no term of d1 or d2 is left
C11_Witness ==
    /\ call.op = "buildIndex"
    /\ call.previous.built
    /\ call.previous.documents = <<docCensus, docImmigration>>
    /\ call.documents = <<docNotes>>
    /\ IndexKeys(searchIndex) = {"null", "notes", "txt"}

\* C12 as stated: no element of tokenize(text) and no key of the index is a
\* stop word, the stemmed output included.
C12_NoStopWordToken ==
    /\ call.op = "tokenize" =>
           \A i \in 1..Len(response.tokens) : response.tokens[i] \notin stopWords
    /\ IndexKeys(searchIndex) \cap stopWords = {}

\* a token as the index keeps it: longer than 2 characters, no upper-case letter
WellFormedToken(token) ==
    /\ Len(token) > 2
    /\ \A i \in 1..Len(token) : CharAt(token, i) \notin UpperCharSet

\* C13: every element of tokenize(text) and every key of the index is
\* non-empty, lowercase and longer than 2 characters, also after a suffix
\* was stripped.
C13_TokensWellFormed ==
    /\ call.op = "tokenize" =>
           \A i \in 1..Len(response.tokens) : WellFormedToken(response.tokens[i])
    /\ \A term \in IndexKeys(searchIndex) : WellFormedToken(term)

\* "added" loses its suffix and keeps 3 characters
C13_Witness ==
    /\ call.op = "tokenize"
    /\ call.query = "The added, OF"
    /\ response.tokens = <<"add">>

\* C14 as stated: search with a null, undefined or empty query returns a
\* normal response under every strategy.
C14_NoThrowOnMissingQuery ==
    (IsSearch /\ call.query \in {Null, Undef, ""}) => ~response.threw

\* the document as it would be with an empty text
withoutText(doc) == [doc EXCEPT !.ocrText = ""]

\* C15 as stated: a document whose ocrText is null has no term registered for
\* the missing field (every term indexed for it is a term of its fileName),
\* and it is a candidate of a search only if it is one with an empty text.
C15_MissingTextIsNoText ==
    /\ \A i \in 1..Len(searchIndex) :
          \A d \in Range(indexedDocs.documents) :
              (d.ocrText = Null /\ d.documentId \in Range(searchIndex[i].docIds))
              => SeqIncludes(tokenize(d.fileName), searchIndex[i].term)
    /\ (IsSearch /\ ~trace.threw) =>
          \A k \in 1..Len(trace.candidates) :
              trace.candidates[k].ocrText = Null
              => selectCandidates(searchIndex, call.query,
                                  <<withoutText(trace.candidates[k])>>,
                                  call.options) # <<>>

\* C16 as stated: calculateRelevance never returns a negative value, and no
\* result of search has a negative relevanceScore.
C16_RelevanceNeverNegative ==
    /\ call.op = "calculateRelevance" => response.score >= 0
    /\ Returned =>
          \A i \in 1..Len(response.results) : response.results[i].relevanceScore >= 0

\* how many documents of a collection hold the term
HoldingTerm(term, documents) ==
    Cardinality({i \in 1..Len(documents) : term \in Range(docTokens(documents[i]))})

\* no query term of the document is a term of every document of the collection
NoTermOfAll(query, doc, documents) ==
    \A term \in Range(tokensOf(query)) \cap Range(docTokens(doc)) :
        HoldingTerm(term, documents) < Len(documents)

\* C16, amended: the score is not negative when no query term that occurs in
\* the document occurs in every document of allDocuments.
C16_RelevanceNonNegativeUnlessTermOfAll ==
    /\ (call.op = "calculateRelevance"
        /\ NoTermOfAll(call.query, call.documents[call.position], call.documents))
       => response.score >= 0
    /\ Returned =>
          \A i \in 1..Len(response.results) :
              NoTermOfAll(call.query, response.results[i], call.documents)
              => response.results[i].relevanceScore >= 0

\* "Smith" occurs in one document of three: tf * idf is positive, and the
\* phrase boost adds 1.0
C16_Witness ==
    /\ call.op = "calculateRelevance"
    /\ call.query = "Smith"
    /\ call.documents = <<docNotes, docLetter, docWill>>
    /\ call.position = 2
    /\ response.score = 1081093

\* the same multiset of tokens
SameTokens(a, b) ==
    \A token \in Range(docTokens(a)) \cup Range(docTokens(b)) :
        occurrences(docTokens(a), token) = occurrences(docTokens(b), token)

\* the lowercased text of the document contains the lowercased raw query
HasPhrase(query, doc) == includes(docContent(doc), lowerOf(query))

\* the scored document holds the phrase, the other document of the collection
\* does not, and they agree in fileName and in tokens
PhraseOnlyDiffers(query, doc, other) ==
    /\ doc.fileName = other.fileName
    /\ SameTokens(doc, other)
    /\ HasPhrase(query, doc)
    /\ ~HasPhrase(query, other)

\* C17 as stated: for a query of at least one token, a document that holds
\* the exact phrase scores 1.0 more than a document of the same collection
\* with the same fileName and tokens that does not.
C17_PhraseBoost ==
    (call.op = "calculateRelevance" /\ Len(tokensOf(call.query)) >= 1) =>
        \A j \in 1..Len(call.documents) :
            PhraseOnlyDiffers(call.query, call.documents[call.position],
                              call.documents[j])
            => response.score
               = calculateRelevance(call.query, call.documents[j], call.documents)
                 + oneMicro

\* C17, amended: the same, for documents that have at least one token.
C17_PhraseBoostOfDocumentsWithTokens ==
    (call.op = "calculateRelevance" /\ Len(tokensOf(call.query)) >= 1) =>
        \A j \in 1..Len(call.documents) :
            (/\ PhraseOnlyDiffers(call.query, call.documents[call.position],
                                  call.documents[j])
             /\ Len(docTokens(call.documents[call.position])) >= 1)
            => response.score
               = calculateRelevance(call.query, call.documents[j], call.documents)
                 + oneMicro

\* "Smith John farmer" against "John Smith farmer", query "Smith John"
C17_Witness ==
    /\ call.op = "calculateRelevance"
    /\ call.query = "Smith John"
    /\ call.documents = <<docLetter, docLetterReordered>>
    /\ call.position = 1
    /\ PhraseOnlyDiffers(call.query, docLetter, docLetterReordered)
    /\ response.score = 837814
    /\ calculateRelevance(call.query, docLetterReordered, call.documents) = -162186

\* the document passes each filter taken alone
PassesEach(doc, filters) ==
    /\ dateFilter(<<doc>>, filters) # <<>>
    /\ fileTypeFilter(<<doc>>, filters) # <<>>
    /\ sourceFilter(<<doc>>, filters) # <<>>
    /\ tagFilter(<<doc>>, filters) # <<>>
    /\ sizeFilter(<<doc>>, filters) # <<>>

PassingEach(results, filters) ==
    LET keep(doc) == PassesEach(doc, filters) IN SelectSeq(results, keep)

\* C18: applyFilters returns exactly the results that pass every filter, in
\* their order, and all results when filters is empty.
C18_FiltersComposeAsAnd ==
    call.op = "applyFilters" =>
        /\ response.results = PassingEach(call.documents, call.options.filters)
        /\ call.options.filters = noFilters => response.results = call.documents

\* three filters at once: the date and the tag filter each reject d1, the
\* source filter rejects nothing
C18_Witness ==
    /\ call.op = "applyFilters"
    /\ call.documents = <<docCensus, docImmigration>>
    /\ call.options.filters
       = [noFilters EXCEPT !.dateFrom = 15, !.sources = <<"scan", "upload">>,
                           !.tags = <<"ireland">>]
    /\ response.results = <<docImmigration>>

\* a call that returns filtered documents
Filtered == call.op = "applyFilters" \/ Returned

\* metadata.fileSize, missing treated as 0
FileSizeOf(doc) ==
    IF doc.metadata.fileSize = UndefNum THEN 0 ELSE doc.metadata.fileSize

\* C19 as stated: when minSize or maxSize is supplied (0 included), every
\* returned document has its fileSize within [minSize, maxSize], an omitted
\* minSize being 0 and an omitted maxSize unbounded.
C19_SizeWithinSuppliedLimits ==
    LET filters == call.options.filters IN
    (Filtered /\ (filters.minSize # UndefNum \/ filters.maxSize # UndefNum)) =>
        \A i \in 1..Len(response.results) :
            /\ filters.minSize # UndefNum
               => FileSizeOf(response.results[i]) >= filters.minSize
            /\ filters.maxSize # UndefNum
               => FileSizeOf(response.results[i]) <= filters.maxSize

\* how often x occurs in a sequence
CountIn(seq, x) == Cardinality({i \in 1..Len(seq) : seq[i] = x})

IsPermutation(a, b) ==
    /\ Len(a) = Len(b)
    /\ \A x \in Range(a) \cup Range(b) : CountIn(a, x) = CountIn(b, x)

\* the sort key of a result: relevanceScore or metadata.fileSize, missing as 0
KeyOf(result, sortBy) ==
    IF sortBy = "size" THEN FileSizeOf(result)
    ELSE IF result.relevanceScore = UndefNum THEN 0 ELSE result.relevanceScore

InOrder(results, sortBy, sortOrder) ==
    \A i \in 1..(Len(results) - 1) :
        IF sortOrder = "desc"
        THEN KeyOf(results[i], sortBy) >= KeyOf(results[i + 1], sortBy)
        ELSE KeyOf(results[i], sortBy) <= KeyOf(results[i + 1], sortBy)

documentIds(results) == [i \in 1..Len(results) |-> results[i].documentId]

\* C20: sortResults returns a permutation of its argument, non-increasing in
\* the key with sortOrder 'desc' and non-decreasing with 'asc', for the keys
\* relevance and size; the full result list of search is ordered by sortBy
\* and sortOrder, relevance and desc being the defaults.
C20_SortedPermutation ==
    /\ call.op = "sortResults" =>
          /\ IsPermutation(response.results, call.documents)
          /\ (call.options.sortBy \in {"relevance", "size"}
              /\ call.options.sortOrder \in {"asc", "desc"})
             => InOrder(response.results, call.options.sortBy, call.options.sortOrder)
    /\ Returned =>
          /\ IsPermutation(documentIds(trace.sorted), documentIds(trace.filtered))
          /\ sortByOf(call.options) \in {"relevance", "size"}
             => InOrder(trace.sorted, sortByOf(call.options), sortOrderOf(call.options))

\* d1 (size 3) before d2 (size 1), sorted by size ascending: d2 comes first
C20_Witness ==
    /\ call.op = "sortResults"
    /\ documentIds(call.documents) = <<"d1", "d2">>
    /\ call.options.sortBy = "size"
    /\ call.options.sortOrder = "asc"
    /\ documentIds(response.results) = <<"d2", "d1">>


\* the string begins with the prefix
BeginsWith(string, prefix) ==
    \E rest \in 0..Len(string) :
        /\ Len(string) = Len(prefix) + rest
        /\ \A i \in 1..Len(prefix) : CharAt(string, i) = CharAt(prefix, i)

\* C21: getSuggestions returns [] for a partialQuery that is missing, empty or
\* shorter than 2 characters; otherwise every string it returns begins with
\* the lowercased partialQuery, none is returned twice, there are at most
\* limit of them, and they are in non-decreasing order of length.
C21_SuggestionsWellFormed ==
    call.op = "getSuggestions" =>
        LET suggestions == response.suggestions
            limit == IF call.options.limit = UndefNum THEN 5 ELSE call.options.limit
        IN IF call.query \in {Null, Undef, ""} \/ Len(call.query) < 2
           THEN suggestions = <<>>
           ELSE /\ \A i \in 1..Len(suggestions) :
                      BeginsWith(suggestions[i], toLowerCase(call.query))
                /\ NoRepeat(suggestions)
                /\ Len(suggestions) <= limit
                /\ \A i \in 1..(Len(suggestions) - 1) :
                      Len(suggestions[i]) <= Len(suggestions[i + 1])

\* "factory" comes from the index, "farm" from the documents passed: the
\* shorter one is returned first
C21_Witness ==
    /\ call.op = "getSuggestions"
    /\ call.query = "fa"
    /\ indexedDocs.documents = <<docCensus>>
    /\ call.documents = <<docCensusEdited>>
    /\ response.suggestions = <<"farm", "factory">>


\* C22: only buildIndex changes the index: search, getSuggestions,
\* highlightMatches and getSearchAnalytics (and every other call) leave it as
\* it is; and when search returns, the caller's documents array has the
\* length, the order and the Documents, field by field, it was passed with.
C22_OnlyBuildIndexChangesState ==
    [][/\ call'.op # "buildIndex" => searchIndex' = searchIndex
       /\ call'.op = "search" => trace'.documents = call'.documents]_vars

\* a search by date, descending, of a query without term: standardSearch
\* returns the caller's array, and the sorted list is in another order
C22_Witness ==
    /\ IsSearch
    /\ call.query = ""
    /\ call.documents = <<docCensus, docImmigration>>
    /\ call.options.sortBy = "date"
    /\ call.options.limit = UndefNum
    /\ documentIds(trace.sorted) = <<"d2", "d1">>
    /\ indexedDocs.built
    /\ trace.documents = call.documents


\* how often the query occurs in the history
Occurrences(history, query) ==
    Cardinality({i \in 1..Len(history) : history[i].query = query})

RECURSIVE SumOfCounts(_, _)
SumOfCounts(entries, n) ==
    IF n = 0 THEN 0 ELSE SumOfCounts(entries, n - 1) + entries[n].count

\* the sum of resultCount over the history, a missing resultCount being 0
RECURSIVE ResultSum(_, _)
ResultSum(history, n) ==
    IF n = 0 THEN 0
    ELSE ResultSum(history, n - 1)
         + (IF history[n].resultCount = UndefNum THEN 0 ELSE history[n].resultCount)

\* C23: getSearchAnalytics returns totalSearches = the length of the history,
\* uniqueQueries = the number of distinct queries, averageResultsPerSearch = 0
\* for an empty history and the sum of resultCount over the length otherwise
\* (to the millionth), and topQueries = at most 10 entries of distinct
\* queries, in non-increasing order of count, each with the true count of its
\* query; the counts sum to at most totalSearches, and to totalSearches when
\* uniqueQueries <= 10.
C23_AnalyticsCounts ==
    call.op = "getSearchAnalytics" =>
        LET history == response.searchHistory
            analytics == response.analytics
            top == analytics.topQueries
            n == Len(history)
            average == analytics.averageResultsPerSearch
        IN /\ analytics.totalSearches = n
           /\ analytics.uniqueQueries
              = Cardinality({history[i].query : i \in 1..n})
           /\ n = 0 => average = 0
           /\ n > 0 => /\ average * n <= ResultSum(history, n) * 1000000
                       /\ ResultSum(history, n) * 1000000 < (average + 1) * n
           /\ Len(top) <= 10
           /\ \A i \in 1..(Len(top) - 1) : top[i].count >= top[i + 1].count
           /\ \A i \in 1..Len(top) : top[i].count = Occurrences(history, top[i].query)
           /\ \A i, j \in 1..Len(top) : top[i].query = top[j].query => i = j
           /\ SumOfCounts(top, Len(top)) <= analytics.totalSearches
           /\ analytics.uniqueQueries <= 10
              => SumOfCounts(top, Len(top)) = analytics.totalSearches

\* 13 searches for 11 queries: 10 queries are ranked, their counts sum to 12
C23_Witness ==
    /\ call.op = "getSearchAnalytics"
    /\ response.analytics.totalSearches = 13
    /\ response.analytics.uniqueQueries = 11
    /\ Len(response.analytics.topQueries) = 10
    /\ SumOfCounts(response.analytics.topQueries, 10) = 12
    /\ response.analytics.averageResultsPerSearch = 7000000


\* the classical Levenshtein distance: insert, delete and substitute cost 1
RECURSIVE Levenshtein(_, _)
Levenshtein(a, b) ==
    IF Len(a) = 0 THEN Len(b)
    ELSE IF Len(b) = 0 THEN Len(a)
    ELSE Min2(Levenshtein(Tail(a), Tail(b)) + (IF Head(a) = Head(b) THEN 0 ELSE 1),
              Min2(Levenshtein(Tail(a), b) + 1, Levenshtein(a, Tail(b)) + 1))

\* C24: editDistance(s1, s2) is the classical Levenshtein distance of s1 and
\* s2, empty strings included; editDistance("kitten", "sitting") is 3.
C24_EditDistanceIsLevenshtein ==
    call.op = "editDistance" =>
        /\ response.distance = Levenshtein(response.str1, response.str2)
        /\ (response.str1 = "kitten" /\ response.str2 = "sitting")
           => response.distance = 3

C24_Witness ==
    /\ call.op = "editDistance"
    /\ response.str1 = "kitten"
    /\ response.str2 = "sitting"
    /\ response.distance = 3

\* the suffixes, in the order stemWord tries them
SuffixList == <<"ing", "ed", "er", "est", "ly", "tion", "sion", "ness", "ment">>

\* the suffixes the word ends with and is long enough to lose
Strippable(word) ==
    {k \in 1..Len(SuffixList) :
        /\ Len(word) > Len(SuffixList[k]) + 2
        /\ SubSeq(word, Len(word) - Len(SuffixList[k]) + 1, Len(word)) = SuffixList[k]}

\* C25: stemWord strips from the word the first suffix of the list that the
\* word ends with and is longer than by more than 2, that suffix only, and
\* returns a word with no such suffix as it is.
C25_StemWordStripsOneSuffix ==
    call.op = "stemWord" =>
        IF Strippable(call.query) = {}
        THEN response.stem = call.query
        ELSE LET k == CHOOSE m \in Strippable(call.query) :
                          \A o \in Strippable(call.query) : m <= o
             IN response.stem \o SuffixList[k] = call.query

\* "workinged" loses "ed" and keeps "ing"
C25_Witness ==
    /\ call.op = "stemWord"
    /\ call.query = "workinged"
    /\ response.stem = "working"


\* C26: in every state, every key of the index has at least one id, every id
\* is the documentId of a document of the collection buildIndex was last
\* called with, and the keys are exactly the terms the documents of that
\* collection tokenize to; before the first buildIndex the index is empty.
C26_IndexWellFormed ==
    /\ ~indexedDocs.built => searchIndex = <<>>
    /\ \A i \in 1..Len(searchIndex) :
          /\ searchIndex[i].docIds # <<>>
          /\ \A id \in Range(searchIndex[i].docIds) :
                \E d \in Range(indexedDocs.documents) : d.documentId = id
    /\ IndexKeys(searchIndex)
       = UNION {Range(docTokens(d)) : d \in Range(indexedDocs.documents)}

\* the index of two documents, after buildIndex, a search and getSuggestions
C26_Witness ==
    /\ call.op = "getSuggestions"
    /\ indexedDocs.documents = <<docCensus, docImmigration>>
    /\ Len(searchIndex) = 10
    /\ response.suggestions = <<"smith">>

\* C27: over a fresh index, for a query of at least one term, every document
\* that standard search selects is selected by fuzzy search; for a query
\* without term, fuzzy search selects none and standard search all of D.
C27_StandardWithinFuzzy ==
    (Ran("standardSearch") /\ Fresh) =>
        LET fuzzy == fuzzySearch(call.query, call.documents)
        IN IF Len(tokenize(call.query)) >= 1
           THEN Range(trace.candidates) \subseteq Range(fuzzy)
           ELSE fuzzy = <<>> /\ trace.candidates = call.documents

\* "zebra Smith" selects d2 by its term smith; fuzzy search selects it too
C27_Witness ==
    /\ Ran("standardSearch") /\ Fresh
    /\ call.query = "zebra Smith"
    /\ call.documents = <<docImmigration, docCensusEdited>>
    /\ trace.candidates = <<docImmigration>>
    /\ docImmigration \in Range(fuzzySearch(call.query, call.documents))

\* the response of the same search for the page at the offset
PageAt(offset) ==
    LET options == [call.options EXCEPT !.offset = offset]
    IN searchResponse(searchTrace(searchIndex, call.query, call.documents, options),
                      call.query, options)

\* the responses of the searches with offset, offset + limit, ... until
\* hasMore is false
RECURSIVE PagesFrom(_, _)
PagesFrom(offset, limit) ==
    LET page == PageAt(offset)
    IN IF page.pagination.hasMore THEN <<page>> \o PagesFrom(offset + limit, limit)
       ELSE <<page>>

RECURSIVE ResultsOf(_, _)
ResultsOf(pages, n) ==
    IF n = 0 THEN <<>> ELSE ResultsOf(pages, n - 1) \o pages[n].results

\* C28: for a search of limit L >= 1 and offset 0 that returns, the searches
\* with offset 0, L, 2L, ... until hasMore is false return, together, every
\* filtered document exactly once, in the order of the result list; the page
\* lengths sum to total, and hasMore is false on the last page only.
C28_PagesPartitionResults ==
    (Returned /\ offsetOf(call.options) = 0 /\ limitOf(call.options) >= 1) =>
        LET pages == PagesFrom(0, limitOf(call.options))
            results == ResultsOf(pages, Len(pages))
        IN /\ results = trace.sorted
           /\ NoRepeat(documentIds(results))
           /\ IsPermutation(documentIds(results), documentIds(trace.filtered))
           /\ Len(results) = response.total
           /\ \A k \in 1..Len(pages) :
                 /\ pages[k].total = response.total
                 /\ pages[k].pagination.hasMore <=> k < Len(pages)

\* two results in pages of 1
C28_Witness ==
    /\ Returned
    /\ call.options.offset = 0
    /\ call.options.limit = 1
    /\ response.total = 2
    /\ response.pagination.hasMore
    /\ Len(PagesFrom(0, 1)) = 2

\* the result is the document at a position of the documents passed, with
\* its score
FromDocuments(result, documents) ==
    \E p \in 1..Len(documents) :
        result = withScore(documents[p], result.relevanceScore)

\* C29: whatever the index holds, every result of a search is a document of
\* the documents passed to that search, no document is in the full result
\* list twice, and total is at most the number of documents passed.
C29_ResultsFromDocumentsPassed ==
    Returned =>
        /\ \A i \in 1..Len(trace.sorted) : FromDocuments(trace.sorted[i], call.documents)
        /\ \A i \in 1..Len(response.results) :
              FromDocuments(response.results[i], call.documents)
        /\ NoRepeat(documentIds(trace.sorted))
        /\ response.total <= Len(call.documents)

\* a stale index: built from d1 as it was, searched with d1 as edited; the
\* edited document is returned, though it does not hold the term
C29_Witness ==
    /\ Ran("standardSearch")
    /\ indexedDocs.documents = <<docCensus>>
    /\ call.query = "Smith"
    /\ call.documents = <<docCensusEdited>>
    /\ trace.candidates = <<docCensusEdited>>
    /\ response.total = 1


\* C30: the log of the error handler holds at most maxLogSize entries; after
\* a call that handled an error that error is at index 0; the log holds, newest
\* first, the most recent of the errors handled since it was last emptied, so
\* that what an overflow discards is the oldest; the stored copy holds at
\* most 100 entries, the most recent of the log when it was written; after
\* clearErrorLog the log is empty and the stored copy is gone.
C30_ErrorLogBoundedNewestFirst ==
    /\ Len(errorLog) <= maxLogSize
    /\ errorCall.logged => errorLog # <<>> /\ errorLog[1] = handled
    /\ Len(errorLog) = Min2(errorRun.since, maxLogSize)
    /\ \A i \in 1..Len(errorLog) : errorLog[i] = handled - i + 1
    /\ storedLog.present =>
          /\ Len(storedLog.entries) <= 100
          /\ \A i \in 1..Len(storedLog.entries) :
                storedLog.entries[i] = storedLog.entries[1] - i + 1
    /\ errorCall.stored =>
          /\ storedLog.present
          /\ storedLog.entries = SubSeq(errorLog, 1, Min2(Len(errorLog), 100))
    /\ errorCall.op = "clearErrorLog" => errorLog = <<>> /\ ~storedLog.present

\* the 1002nd error, handled for a specialised handler: the two oldest are
\* gone
C30_Witness ==
    /\ errorCall.op = "handleError"
    /\ errorCall.via = "handler"
    /\ errorCall.logged /\ errorCall.stored
    /\ handled = 1002
    /\ Len(errorLog) = 1000
    /\ errorLog[1] = 1002
    /\ errorLog[1000] = 3
    /\ Len(storedLog.entries) = 100
    /\ storedLog.entries[100] = 903

=============================================================================
